---- MODULE Spec2Model ----
(***************************************************************************)
(* Model of dl/callbacks.py: the CheckpointCallback (best-N retention,     *)
(* is_best decision, resume) driven through the mode/epoch lifecycle, and  *)
(* the OneCycleLR learning-rate schedule.                                  *)
(***************************************************************************)
EXTENDS Integers, Sequences, FiniteSets, TLC

(***************************************************************************)
(* Bounds of the model.                                                    *)
(***************************************************************************)
\* state.epoch stays below MaxEpoch
MaxEpoch == 3
\* validation losses are drawn from 0..MaxMetric
MaxMetric == 2
\* save_n_best is drawn from 0..MaxSaveNBest
MaxSaveNBest == 2
\* a training loader has 1..MaxLoaderLen batches
MaxLoaderLen == 3
\* cycle_len is drawn from 1..MaxCycleLen
MaxCycleLen == 2
\* div is drawn from 1..MaxDiv
MaxDiv == 3
\* cut_div is drawn from 1..MaxCutDiv
MaxCutDiv == 3
\* the schedule is followed until cycle_count reaches MaxCycles
MaxCycles == 2

(***************************************************************************)
(* Python values.                                                          *)
(***************************************************************************)
\* an optional value: None is the empty sequence, a value x is <<x>>
None == <<>>
Some(x) == <<x>>
Get(o) == o[1]

\* a metric value is a float, or an AverageValueMeter object that
\* PrecisionCallback.on_loader_end merges into state.epoch_metrics
Float(n) == <<"float", n>>
Meter == <<"AverageValueMeter", 0>>
isfloat(v) == v[1] = "float"
FloatVal(v) == v[2]

\* str.startswith on strings held as sequences of characters
startswith(s, prefix) ==
    Len(s) >= Len(prefix) /\ SubSeq(s, 1, Len(prefix)) = prefix

\* str(n) for a natural number: its decimal digits
Digit(d) == <<"0", "1", "2", "3", "4", "5", "6", "7", "8", "9">>[d + 1]
RECURSIVE Str(_)
Str(n) == IF n < 10 THEN <<Digit(n)>> ELSE Str(n \div 10) \o <<Digit(n % 10)>>

Train == <<"t", "r", "a", "i", "n">>
Valid == <<"v", "a", "l", "i", "d">>
ValidPrefix == <<"v", "a", "l", "i", "d">>
BestSuffix == <<"b", "e", "s", "t">>

\* {key: value for key, value in metrics.items() if isinstance(value, float)}
FloatOnly(metrics) ==
    [k \in {key \in DOMAIN metrics : isfloat(metrics[key])} |-> metrics[k]]

VARIABLES
    \* Shared Run State
    epoch, loader_mode, epoch_metrics, best_metrics,
    \* collaborators handed to every hook
    model, optimizer, scheduler,
    \* CheckpointCallback fields
    save_n_best, resume, minimize, top_best_metrics,
    \* the checkpoint files on disk: path -> checkpoint
    files,
    \* the run: its mode, its loaders, whether PrecisionCallback merges its
    \* meters after the logger, the lifecycle position, the exception raised
    mode, loaders, with_meters, pc, run, raised,
    \* what the last hook did (is_best, entry appended, entry evicted,
    \* os.remove calls, files written), the number of save_checkpoint calls
    \* of this run, and the main-metric values best_metrics was compared with
    last, n_saves, processed,
    \* the loader being run: its index in loaders, its length, the batches done
    loader_idx, loader_len, batch, is_train,
    \* state.lr and state.momentum, and the optimizers' parameter groups
    state_lr, state_momentum, param_groups,
    \* OneCycleLR fields
    init_lr, div, cut_div, cycle_len, momentum_range,
    total_iter, cut_point, cycle_iter, cycle_count,
    \* what the last schedule hook computed
    lr_last,
    \* LRFinder fields
    final_lr, n_steps, multiplier, find_iter,
    \* the optimizers by key (their parameter groups), the model's
    \* parameters and gradients, whether the model is an Fp16Wrap
    optimizers, model_params, model_grads, model_fp16,
    \* BasicOptimizerCallback fields
    optimizer_wds, grad_clip, fp16,
    \* the calls the last batch-end hook made, in order, and the weight-decay
    \* fields as they were before the last epoch-start
    ops, wd_before

ckvars == <<epoch, loader_mode, epoch_metrics, best_metrics, model, optimizer,
            scheduler, save_n_best, resume, minimize, top_best_metrics, files,
            mode, loaders, with_meters, pc, run, raised, last, n_saves,
            processed>>

\* the variables that only the learning-rate schedules use
lrvars == <<loader_idx, loader_len, batch, is_train, state_lr, state_momentum,
            param_groups, init_lr, div, cut_div, cycle_len, momentum_range,
            total_iter, cut_point, cycle_iter, cycle_count, lr_last>>

\* the variables that only the CheckpointCallback uses
ckonly == <<epoch_metrics, best_metrics, model, optimizer, scheduler,
            save_n_best, resume, minimize, top_best_metrics, files,
            with_meters, run, last, n_saves, processed>>

\* the variables that only the LRFinder uses
findvars == <<final_lr, n_steps, multiplier, find_iter>>

\* the variables that only the BasicOptimizerCallback uses
optvars == <<optimizers, model_params, model_grads, model_fp16, optimizer_wds,
             grad_clip, fp16, ops, wd_before>>

vars == <<ckvars, lrvars, findvars, optvars>>

main_metric == "loss"
logdir == "logs"

(***************************************************************************)
(* The checkpoint helpers of common.utils.helpers.                         *)
(***************************************************************************)
\* the file written for a save event, suffixed by the epoch number
CheckpointPath(dir, suffix) == [dir |-> dir, suffix |-> suffix]
BestPath(dir) == CheckpointPath(dir, BestSuffix)

isfile(fs, path) == path \in DOMAIN fs

WriteFile(fs, path, content) ==
    [p \in DOMAIN fs \cup {path} |-> IF p = path THEN content ELSE fs[p]]

RemoveFile(fs, path) == [p \in DOMAIN fs \ {path} |-> fs[p]]

\* prepare_checkpoint(**kwargs): the mapping that is serialized
prepare_checkpoint(model_, optimizer_, scheduler_, valid_metrics_, epoch_metrics_, best_metrics_, epoch_) ==
    [epoch |-> epoch_,
     best_metrics |-> best_metrics_,
     valid_metrics |-> valid_metrics_,
     epoch_metrics |-> epoch_metrics_,
     model_state_dict |-> model_,
     optimizer_state_dict |-> optimizer_,
     scheduler |-> scheduler_]

\* helpers.save_checkpoint: writes the epoch-suffixed file, copies it to the
\* "best" file when is_best, returns the path of the epoch-suffixed file
helper_save_checkpoint(fs, dir, checkpoint, is_best, suffix) ==
    LET filepath == CheckpointPath(dir, suffix)
        fs1 == WriteFile(fs, filepath, checkpoint)
    IN  [filepath |-> filepath,
         files |-> IF is_best THEN WriteFile(fs1, BestPath(dir), checkpoint)
                   ELSE fs1,
         written |-> IF is_best THEN {filepath, BestPath(dir)} ELSE {filepath}]

(***************************************************************************)
(* CheckpointCallback.                                                     *)
(***************************************************************************)
NoException == "none"

\* sorted(list, key=lambda x: x[1], reverse=reverse): entry x sorts strictly
\* before entry y
SortsBefore(x, y, reverse) ==
    IF reverse THEN FloatVal(x[2]) > FloatVal(y[2])
    ELSE FloatVal(x[2]) < FloatVal(y[2])

\* the sort is stable: x goes behind every entry it does not sort strictly
\* before, so entries with equal keys keep their order (also when reversed)
RECURSIVE InsertSorted(_, _, _)
InsertSorted(s, x, reverse) ==
    IF s = <<>> THEN <<x>>
    ELSE IF SortsBefore(x, Head(s), reverse) THEN <<x>> \o s
    ELSE <<Head(s)>> \o InsertSorted(Tail(s), x, reverse)

RECURSIVE sorted(_, _)
sorted(list, reverse) ==
    IF list = <<>> THEN <<>>
    ELSE InsertSorted(sorted(SubSeq(list, 1, Len(list) - 1), reverse),
                      list[Len(list)], reverse)

\* mutant: the sort direction is not negated
sort_reverse_same(minimize_) == minimize_

\* reverse=not self.minimize
sort_reverse(minimize_) == ~minimize_

\* mutant: the bound is compared one too high
exceeds_late(list, save_n_best_) == Len(list) > save_n_best_ + 1

\* len(self.top_best_metrics) > save_n_best
exceeds(list, save_n_best_) == Len(list) > save_n_best_

\* mutant: pop(0), the head of the list
pop_index_head(list) == 1

\* the index that pop(-1) removes
pop_index(list) == Len(list)

\* list without the item at index i
Without(list, i) == SubSeq(list, 1, i - 1) \o SubSeq(list, i + 1, Len(list))

\* mutant: every save event gets the same suffix
epoch_suffix_fixed(checkpoint) == Str(0)

\* suffix=str(checkpoint.get("epoch", ""))
epoch_suffix(checkpoint) == Str(checkpoint.epoch)

\* CheckpointCallback.save_checkpoint: the new retained list and disk, with
\* the entry appended, the entry popped and the os.remove call (which raises
\* when the file is not there)
save_checkpoint(top, fs, minimize_, dir, checkpoint, is_best, save_n_best_) ==
    LET saved == helper_save_checkpoint(fs, dir, checkpoint, is_best,
                                        epoch_suffix(checkpoint))
        entry == <<saved.filepath, checkpoint.valid_metrics[main_metric]>>
        ordered == sorted(Append(top, entry), sort_reverse(minimize_))
        over == exceeds(ordered, save_n_best_)
        last_item == ordered[pop_index(ordered)]
    IN  [top_best_metrics |->
             IF over THEN Without(ordered, pop_index(ordered)) ELSE ordered,
         files |-> IF over THEN RemoveFile(saved.files, last_item[1])
                   ELSE saved.files,
         raised |-> IF over /\ ~isfile(saved.files, last_item[1])
                    THEN "FileNotFoundError" ELSE NoException,
         entry |-> Some(entry),
         evicted |-> IF over THEN Some(last_item) ELSE None,
         removed |-> IF over THEN {last_item[1]} ELSE {},
         written |-> saved.written]

\* the value of the last key of epoch_metrics that starts with "valid"
RECURSIVE LastValid(_, _)
LastValid(items, acc) ==
    IF items = <<>> THEN acc
    ELSE LastValid(Tail(items),
                   IF startswith(Head(items)[1], ValidPrefix)
                   THEN Some(Head(items)[2]) ELSE acc)

\* mutant: the comparison is not strict
is_best_decision_ge(minimize_, new, old) == minimize_ # (new >= old)

\* minimize != (valid_metrics[main_metric] > best_metrics[main_metric])
is_best_decision(minimize_, new, old) == minimize_ # (new > old)

\* mutant: the new snapshot always replaces the best one
choose_best_always(is_best, valid_metrics, best_metrics_) == valid_metrics

\* best_metrics = valid_metrics if is_best else best_metrics
choose_best(is_best, valid_metrics, best_metrics_) ==
    IF is_best THEN valid_metrics ELSE best_metrics_

\* CheckpointCallback.process_epoch_metrics
process_epoch_metrics(epoch_metrics_, best_metrics_, main_metric_, minimize_) ==
    LET valid_metrics == LastValid(epoch_metrics_, None)
        is_best ==
            IF best_metrics_ = None THEN TRUE
            ELSE is_best_decision(minimize_,
                                  FloatVal(Get(valid_metrics)[main_metric_]),
                                  FloatVal(Get(best_metrics_)[main_metric_]))
    IN  [best_metrics |-> choose_best(is_best, valid_metrics, best_metrics_),
         valid_metrics |-> valid_metrics,
         is_best |-> is_best]

\* mutant: state.best_metrics is not restored
restore_without_best(checkpoint, model_, optimizer_, scheduler_) ==
    [raised |-> NoException,
     epoch |-> checkpoint.epoch,
     best_metrics |-> None,
     model |-> IF model_ # None THEN checkpoint.model_state_dict ELSE model_,
     optimizer |-> optimizer_,
     scheduler |-> scheduler_]

\* the body of load_checkpoint once the file is known to exist: state.epoch
\* and state.best_metrics come from the checkpoint, the model, every optimizer
\* and every scheduler entry are loaded by key
restore(checkpoint, model_, optimizer_, scheduler_) ==
    [raised |-> NoException,
     epoch |-> checkpoint.epoch,
     best_metrics |-> checkpoint.best_metrics,
     model |-> IF model_ # None THEN checkpoint.model_state_dict ELSE model_,
     optimizer |->
         IF optimizer_ # None
         THEN Some([key \in DOMAIN Get(optimizer_) |->
                      Get(checkpoint.optimizer_state_dict)[key]])
         ELSE optimizer_,
     scheduler |->
         IF scheduler_ # None
         THEN Some([key \in DOMAIN Get(scheduler_) |->
                      Get(checkpoint.scheduler)[key]])
         ELSE scheduler_]

\* mutant: a missing file is skipped and the run starts from scratch
load_checkpoint_lenient(fs, filename, epoch_, best_metrics_, model_, optimizer_, scheduler_) ==
    IF isfile(fs, filename)
    THEN restore(fs[filename], model_, optimizer_, scheduler_)
    ELSE [raised |-> NoException,
          epoch |-> epoch_,
          best_metrics |-> best_metrics_,
          model |-> model_,
          optimizer |-> optimizer_,
          scheduler |-> scheduler_]

\* CheckpointCallback.load_checkpoint
load_checkpoint(fs, filename, epoch_, best_metrics_, model_, optimizer_, scheduler_) ==
    IF isfile(fs, filename)
    THEN restore(fs[filename], model_, optimizer_, scheduler_)
    ELSE [raised |-> "no checkpoint found",
          epoch |-> epoch_,
          best_metrics |-> best_metrics_,
          model |-> model_,
          optimizer |-> optimizer_,
          scheduler |-> scheduler_]

\* CheckpointCallback.on_mode_start, reached from on_train_start and
\* on_infer_start
on_mode_start(resume_, fs, epoch_, best_metrics_, model_, optimizer_, scheduler_) ==
    IF resume_ # None
    THEN load_checkpoint(fs, Get(resume_), epoch_, best_metrics_, model_,
                         optimizer_, scheduler_)
    ELSE [raised |-> NoException,
          epoch |-> epoch_,
          best_metrics |-> best_metrics_,
          model |-> model_,
          optimizer |-> optimizer_,
          scheduler |-> scheduler_]

\* what a hook that saves nothing leaves behind
NoEffect ==
    [saved |-> FALSE, is_best |-> FALSE, entry |-> None, evicted |-> None,
     removed |-> {}, written |-> {}]

\* mutant: the hook saves after every loader mode
is_valid_loader_any(loader_mode_) == TRUE

\* state.loader_mode.startswith("valid")
is_valid_loader(loader_mode_) == startswith(loader_mode_, ValidPrefix)

\* CheckpointCallback.on_epoch_end
on_epoch_end(loader_mode_, epoch_metrics_, best_metrics_, epoch_, model_, optimizer_, scheduler_, top, fs, minimize_, save_n_best_) ==
    IF ~is_valid_loader(loader_mode_)
    THEN [best_metrics |-> best_metrics_,
          top_best_metrics |-> top,
          files |-> fs,
          raised |-> NoException,
          last |-> NoEffect]
    ELSE LET r == process_epoch_metrics(epoch_metrics_, best_metrics_,
                                        main_metric, minimize_)
             valid_metrics == FloatOnly(Get(r.valid_metrics))
             new_best == Some(FloatOnly(Get(r.best_metrics)))
             checkpoint == prepare_checkpoint(model_, optimizer_, scheduler_,
                                              valid_metrics, epoch_metrics_,
                                              new_best, epoch_)
             s == save_checkpoint(top, fs, minimize_, logdir, checkpoint,
                                  r.is_best, save_n_best_)
         IN  [best_metrics |-> new_best,
              top_best_metrics |-> s.top_best_metrics,
              files |-> s.files,
              raised |-> s.raised,
              last |-> [saved |-> TRUE, is_best |-> r.is_best,
                        entry |-> s.entry, evicted |-> s.evicted,
                        removed |-> s.removed, written |-> s.written]]

(***************************************************************************)
(* The lifecycle that drives the CheckpointCallback.                       *)
(***************************************************************************)
Modes == {"train", "infer"}
LoaderConfigs == {<<Train, Valid>>, <<Valid, Train>>}
Metrics == 0..MaxMetric

\* the resume option of a run: none, or a path (of an existing checkpoint
\* file, or the "best" file whether it exists or not)
ResumeChoices(fs) ==
    {None} \cup {Some(p) : p \in DOMAIN fs \cup {BestPath(logdir)}}

\* the metrics the logger leaves in state.epoch_metrics[lm] at loader-end: the
\* loss as a float and, when PrecisionCallback runs after the logger, its meter
Snapshot(lm, loss, meters) ==
    LET value == IF startswith(lm, ValidPrefix) THEN loss ELSE 0
    IN  IF meters THEN [loss |-> Float(value), precision01 |-> Meter]
        ELSE [loss |-> Float(value)]

\* one more training pass over a collaborator's state
Stepped(o) == Some([key \in DOMAIN Get(o) |-> Get(o)[key] + 1])

Fresh ==
    /\ epoch = 0
    /\ loader_mode = <<>>
    /\ epoch_metrics = <<>>
    /\ best_metrics = None
    /\ model = Some(0)
    /\ optimizer = Some([main |-> 0])
    /\ scheduler = Some([main |-> 0])
    /\ top_best_metrics = <<>>
    /\ pc = "mode_start"
    /\ raised = NoException
    /\ last = NoEffect
    /\ n_saves = 0
    /\ processed = {}

\* no learning-rate schedule is registered
NoSchedule ==
    /\ loader_idx = 0
    /\ loader_len = 0
    /\ batch = 0
    /\ is_train = FALSE
    /\ state_lr = <<>>
    /\ state_momentum = <<>>
    /\ param_groups = <<>>
    /\ init_lr = None
    /\ div = 0
    /\ cut_div = 0
    /\ cycle_len = 0
    /\ momentum_range = None
    /\ total_iter = None
    /\ cut_point = None
    /\ cycle_iter = 0
    /\ cycle_count = 0
    /\ lr_last = None

\* no LRFinder is registered
NoFinder ==
    /\ final_lr = None
    /\ n_steps = None
    /\ multiplier = None
    /\ find_iter = 0

\* no BasicOptimizerCallback is registered
NoOptimizerCallback ==
    /\ optimizers = <<>>
    /\ model_params = <<>>
    /\ model_grads = <<>>
    /\ model_fp16 = FALSE
    /\ optimizer_wds = <<>>
    /\ grad_clip = None
    /\ fp16 = FALSE
    /\ ops = <<>>
    /\ wd_before = <<>>

Init ==
    /\ Fresh
    /\ NoSchedule
    /\ NoFinder
    /\ NoOptimizerCallback
    /\ save_n_best \in 0..MaxSaveNBest
    /\ minimize \in BOOLEAN
    /\ files = <<>>
    /\ resume \in ResumeChoices(files)
    /\ mode \in Modes
    /\ loaders \in LoaderConfigs
    /\ with_meters \in BOOLEAN
    /\ run = "first"

\* mode-start: on_train_start / on_infer_start of the CheckpointCallback
ModeStart ==
    /\ UNCHANGED <<lrvars, findvars, optvars>>
    /\ pc = "mode_start"
    /\ LET r == on_mode_start(resume, files, epoch, best_metrics, model,
                              optimizer, scheduler)
       IN  /\ epoch' = r.epoch
           /\ best_metrics' = r.best_metrics
           /\ model' = r.model
           /\ optimizer' = r.optimizer
           /\ scheduler' = r.scheduler
           /\ raised' = r.raised
           /\ pc' = IF r.raised # NoException THEN "aborted" ELSE "epoch_start"
           /\ processed' = IF r.best_metrics = None THEN {}
                           ELSE {FloatVal(Get(r.best_metrics)[main_metric])}
    /\ last' = NoEffect
    /\ UNCHANGED <<loader_mode, epoch_metrics, save_n_best, resume, minimize,
                   top_best_metrics, files, mode, loaders, with_meters, run,
                   n_saves>>

\* epoch-start and one pass over every loader: the logger resets
\* state.epoch_metrics and fills it loader by loader; a training run steps the
\* model, the optimizers and the schedulers
RunLoaders(loss) ==
    /\ UNCHANGED <<lrvars, findvars, optvars>>
    /\ pc = "epoch_start"
    /\ epoch < MaxEpoch
    /\ epoch_metrics' = [i \in 1..Len(loaders) |->
                           <<loaders[i], Snapshot(loaders[i], loss, with_meters)>>]
    /\ loader_mode' = loaders[Len(loaders)]
    /\ IF mode = "train"
       THEN /\ model' = Some(Get(model) + 1)
            /\ optimizer' = Stepped(optimizer)
            /\ scheduler' = Stepped(scheduler)
       ELSE UNCHANGED <<model, optimizer, scheduler>>
    /\ pc' = "epoch_end"
    /\ last' = NoEffect
    /\ UNCHANGED <<epoch, best_metrics, save_n_best, resume, minimize,
                   top_best_metrics, files, mode, loaders, with_meters, run,
                   raised, n_saves, processed>>

\* epoch-end: on_epoch_end of the CheckpointCallback, then the dispatcher
\* advances state.epoch
EpochEnd ==
    /\ UNCHANGED <<lrvars, findvars, optvars>>
    /\ pc = "epoch_end"
    /\ LET r == on_epoch_end(loader_mode, epoch_metrics, best_metrics, epoch,
                             model, optimizer, scheduler, top_best_metrics,
                             files, minimize, save_n_best)
       IN  /\ best_metrics' = r.best_metrics
           /\ top_best_metrics' = r.top_best_metrics
           /\ files' = r.files
           /\ raised' = r.raised
           /\ last' = r.last
           /\ n_saves' = IF r.last.saved THEN n_saves + 1 ELSE n_saves
           /\ processed' = IF r.last.saved
                           THEN processed \cup {FloatVal(Get(r.last.entry)[2])}
                           ELSE processed
           /\ pc' = IF r.raised # NoException THEN "aborted"
                    ELSE IF mode = "infer" THEN "mode_end" ELSE "epoch_start"
    /\ epoch' = epoch + 1
    /\ UNCHANGED <<loader_mode, epoch_metrics, model, optimizer, scheduler,
                   save_n_best, resume, minimize, mode, loaders, with_meters,
                   run>>

\* mode-end: on_train_end prints the retained list, on_infer_end does nothing
ModeEnd ==
    /\ UNCHANGED <<lrvars, findvars, optvars>>
    /\ pc = IF mode = "train" THEN "epoch_start" ELSE "mode_end"
    /\ pc' = "done"
    /\ last' = NoEffect
    /\ UNCHANGED <<epoch, loader_mode, epoch_metrics, best_metrics, model,
                   optimizer, scheduler, save_n_best, resume, minimize,
                   top_best_metrics, files, mode, loaders, with_meters, run,
                   raised, n_saves, processed>>

\* a second run over the same log directory: a new state and a new
\* CheckpointCallback, which may resume from a file the first run left
NextRun ==
    /\ UNCHANGED <<lrvars, findvars, optvars>>
    /\ pc \in {"done", "aborted"}
    /\ run = "first"
    /\ run' = "second"
    /\ epoch' = 0
    /\ loader_mode' = <<>>
    /\ epoch_metrics' = <<>>
    /\ best_metrics' = None
    /\ model' = Some(0)
    /\ optimizer' = Some([main |-> 0])
    /\ scheduler' = Some([main |-> 0])
    /\ top_best_metrics' = <<>>
    /\ pc' = "mode_start"
    /\ raised' = NoException
    /\ last' = NoEffect
    /\ n_saves' = 0
    /\ processed' = {}
    /\ resume' \in ResumeChoices(files)
    /\ mode' \in Modes
    /\ UNCHANGED <<save_n_best, minimize, files, loaders, with_meters>>

Next ==
    \/ ModeStart
    \/ \E loss \in Metrics : RunLoaders(loss)
    \/ EpochEnd
    \/ ModeEnd
    \/ NextRun

Spec == Init /\ [][Next]_vars

(***************************************************************************)
(* Exact arithmetic for the schedules: a number is a fraction <<n, d>> in  *)
(* lowest terms with d > 0 (Python computes the same expressions in        *)
(* floating point).                                                        *)
(***************************************************************************)
Abs(x) == IF x < 0 THEN -x ELSE x

RECURSIVE GCD(_, _)
GCD(a, b) == IF b = 0 THEN a ELSE GCD(b, a % b)

Rat(n, d) ==
    LET sign == IF d < 0 THEN -1 ELSE 1
        g == GCD(Abs(n), Abs(d))
    IN  <<(sign * n) \div g, (sign * d) \div g>>

FromInt(n) == <<n, 1>>
\* the least common denominator of two fractions
LCD(a, b) == (a[2] \div GCD(a[2], b[2])) * b[2]
RAdd(a, b) ==
    Rat(a[1] * (LCD(a, b) \div a[2]) + b[1] * (LCD(a, b) \div b[2]), LCD(a, b))
RSub(a, b) ==
    Rat(a[1] * (LCD(a, b) \div a[2]) - b[1] * (LCD(a, b) \div b[2]), LCD(a, b))
RMul(a, b) == Rat(a[1] * b[1], a[2] * b[2])
RDiv(a, b) == Rat(a[1] * b[2], a[2] * b[1])
RLe(a, b) == a[1] * b[2] <= b[1] * a[2]
RLt(a, b) == a[1] * b[2] < b[1] * a[2]

(***************************************************************************)
(* LRUpdater and OneCycleLR.                                               *)
(***************************************************************************)
optimizer_key == "main"
TrainPrefix == <<"t", "r", "a", "i", "n">>

\* mutant: only the first parameter group gets the new rate
update_lr_first(groups, new_lr) ==
    [groups EXCEPT ![1] = [@ EXCEPT !.lr = new_lr]]

\* LRUpdater.update_lr: every parameter group gets the new rate
update_lr(groups, new_lr) ==
    [g \in DOMAIN groups |-> [groups[g] EXCEPT !.lr = new_lr]]

\* LRUpdater.update_momentum: the first element of betas when the first
\* group has betas, else the momentum field
update_momentum(groups, new_momentum) ==
    IF groups[1].betas # None
    THEN [g \in DOMAIN groups |->
            [groups[g] EXCEPT !.betas = Some(<<new_momentum, Get(@)[2]>>)]]
    ELSE [g \in DOMAIN groups |->
            [groups[g] EXCEPT !.momentum = Some(new_momentum)]]

\* mutant: the falling part of the cycle rises instead
lr_percent_rising(cycle_iter_, cut_point_, total_iter_) ==
    IF cycle_iter_ > cut_point_
    THEN RDiv(FromInt(cycle_iter_ - cut_point_), FromInt(total_iter_ - cut_point_))
    ELSE RDiv(FromInt(cycle_iter_), FromInt(cut_point_))

\* the percent of OneCycleLR.calc_lr
lr_percent(cycle_iter_, cut_point_, total_iter_) ==
    IF cycle_iter_ > cut_point_
    THEN RSub(FromInt(1),
              RDiv(FromInt(cycle_iter_ - cut_point_),
                   FromInt(total_iter_ - cut_point_)))
    ELSE RDiv(FromInt(cycle_iter_), FromInt(cut_point_))

\* the division that calc_lr or calc_momentum is about to do has a zero
\* divisor (ZeroDivisionError)
DividesByZero(cycle_iter_, cut_point_, total_iter_) ==
    IF cycle_iter_ > cut_point_ THEN total_iter_ - cut_point_ = 0
    ELSE cut_point_ = 0

\* mutant: the counter wraps only once it is past total_iter
reaches_total_past(cycle_iter_, total_iter_) == cycle_iter_ > total_iter_

\* if self.cycle_iter == self.total_iter
reaches_total(cycle_iter_, total_iter_) == cycle_iter_ = total_iter_

\* OneCycleLR.calc_lr: the rate for the current iteration, and the counters
\* advanced
calc_lr(init_lr_, div_, cycle_iter_, cut_point_, total_iter_, cycle_count_) ==
    LET percent == lr_percent(cycle_iter_, cut_point_, total_iter_)
        res == RDiv(RMul(init_lr_,
                         RAdd(FromInt(1), RMul(percent, FromInt(div_ - 1)))),
                    FromInt(div_))
        wraps == reaches_total(cycle_iter_ + 1, total_iter_)
    IN  [res |-> res,
         cycle_iter |-> IF wraps THEN 0 ELSE cycle_iter_ + 1,
         cycle_count |-> IF wraps THEN cycle_count_ + 1 ELSE cycle_count_]

\* OneCycleLR.calc_momentum
calc_momentum(momentum_range_, cycle_iter_, cut_point_, total_iter_) ==
    LET percent ==
            IF cycle_iter_ > cut_point_
            THEN RDiv(FromInt(cycle_iter_ - cut_point_),
                      FromInt(total_iter_ - cut_point_))
            ELSE RSub(FromInt(1),
                      RDiv(FromInt(cycle_iter_), FromInt(cut_point_)))
    IN  RAdd(momentum_range_[2],
             RMul(percent, RSub(momentum_range_[1], momentum_range_[2])))

\* mutant: the schedule also runs outside training
trains_always(is_train_) == TRUE

\* if state.is_train
trains(is_train_) == is_train_

\* a field that is None until the first training loader-start
OrZero(o) == IF o = None THEN 0 ELSE Get(o)

\* what a schedule hook leaves when it computes nothing
Uncomputed == [called |-> FALSE, i |-> 0, lr |-> None, momentum |-> None]

\* LRUpdater.update_optimizer for a OneCycleLR: when training, calc_lr and
\* then calc_momentum, each written to the optimizer's groups and to the
\* state; else zeros in the state only
update_optimizer(is_train_, state_lr_, state_momentum_, groups_, init_lr_, div_, momentum_range_, cycle_iter_, cut_point_, total_iter_, cycle_count_) ==
    LET unchanged ==
            [raised |-> NoException,
             state_lr |-> state_lr_,
             state_momentum |-> state_momentum_,
             param_groups |-> groups_,
             cycle_iter |-> cycle_iter_,
             cycle_count |-> cycle_count_,
             lr_last |-> Uncomputed]
    IN  IF ~trains(is_train_)
        THEN [unchanged EXCEPT
                !.state_lr = [state_lr_ EXCEPT ![optimizer_key] = FromInt(0)],
                !.state_momentum =
                    [state_momentum_ EXCEPT ![optimizer_key] = FromInt(0)]]
        ELSE IF DividesByZero(cycle_iter_, cut_point_, total_iter_)
        THEN [unchanged EXCEPT !.raised = "ZeroDivisionError"]
        ELSE LET c == calc_lr(init_lr_, div_, cycle_iter_, cut_point_,
                              total_iter_, cycle_count_)
                 with_lr ==
                     [unchanged EXCEPT
                        !.state_lr = [state_lr_ EXCEPT ![optimizer_key] = c.res],
                        !.param_groups =
                            [groups_ EXCEPT ![optimizer_key] = update_lr(@, c.res)],
                        !.cycle_iter = c.cycle_iter,
                        !.cycle_count = c.cycle_count,
                        !.lr_last = [called |-> TRUE, i |-> cycle_iter_,
                                     lr |-> Some(c.res), momentum |-> None]]
             IN  IF DividesByZero(c.cycle_iter, cut_point_, total_iter_)
                 THEN [with_lr EXCEPT !.raised = "ZeroDivisionError"]
                 ELSE LET m == calc_momentum(momentum_range_, c.cycle_iter,
                                             cut_point_, total_iter_)
                      IN  [with_lr EXCEPT
                             !.state_momentum =
                                 [state_momentum_ EXCEPT ![optimizer_key] = m],
                             !.param_groups =
                                 [@ EXCEPT ![optimizer_key] = update_momentum(@, m)],
                             !.lr_last = [@ EXCEPT !.momentum = Some(m)]]

(***************************************************************************)
(* The lifecycle that drives a OneCycleLR: epochs of a training loader and *)
(* a validation loader, one loader-start hook and one batch-end hook per   *)
(* batch.                                                                  *)
(***************************************************************************)
\* the parameter groups of an optimizer, with betas (Adam) or momentum (SGD)
Group(has_betas) ==
    [lr |-> FromInt(1),
     momentum |-> IF has_betas THEN None ELSE Some(Rat(9, 10)),
     betas |-> IF has_betas THEN Some(<<Rat(9, 10), Rat(999, 1000)>>) ELSE None]

\* the schedule configurations: small ranges, and the configuration
\* div=10, cut_div=4, total_iter=100
OneCycleConfigs ==
    [init_lr : {Rat(1, 10), Rat(3, 1)},
     div : 1..MaxDiv,
     cut_div : 1..MaxCutDiv,
     cycle_len : 1..MaxCycleLen,
     loader_len : 1..MaxLoaderLen]
    \cup {[init_lr |-> Rat(1, 10), div |-> 10, cut_div |-> 4, cycle_len |-> 2,
           loader_len |-> 50]}

\* len(state.loader): the validation loader has one batch
LoaderLen(lm) == IF startswith(lm, TrainPrefix) THEN loader_len ELSE 1

\* no CheckpointCallback is registered
NoCheckpointing ==
    /\ epoch_metrics = <<>>
    /\ best_metrics = None
    /\ model = None
    /\ optimizer = None
    /\ scheduler = None
    /\ save_n_best = 0
    /\ resume = None
    /\ minimize = TRUE
    /\ top_best_metrics = <<>>
    /\ files = <<>>
    /\ with_meters = FALSE
    /\ run = "first"
    /\ last = NoEffect
    /\ n_saves = 0
    /\ processed = {}

InitOneCycle ==
    /\ NoCheckpointing
    /\ NoFinder
    /\ NoOptimizerCallback
    /\ \E c \in OneCycleConfigs :
          /\ init_lr = c.init_lr
          /\ div = c.div
          /\ cut_div = c.cut_div
          /\ cycle_len = c.cycle_len
          /\ loader_len = c.loader_len
    /\ momentum_range = <<Rat(19, 20), Rat(17, 20)>>
    /\ total_iter = None
    /\ cut_point = None
    /\ cycle_iter = 0
    /\ cycle_count = 0
    /\ \E has_betas \in BOOLEAN :
          param_groups = [main |-> <<Group(has_betas), Group(has_betas)>>,
                          aux |-> <<Group(has_betas)>>]
    /\ state_lr = [main |-> None, aux |-> None]
    /\ state_momentum = [main |-> None, aux |-> None]
    /\ mode = "train"
    /\ loaders = <<Train, Valid>>
    /\ epoch = 0
    /\ loader_idx = 1
    /\ loader_mode = <<>>
    /\ is_train = FALSE
    /\ batch = 0
    /\ pc = "loader_start"
    /\ raised = NoException
    /\ lr_last = Uncomputed

\* what the hooks of the schedule write
ApplyUpdate(u) ==
    /\ state_lr' = u.state_lr
    /\ state_momentum' = u.state_momentum
    /\ param_groups' = u.param_groups
    /\ cycle_iter' = u.cycle_iter
    /\ cycle_count' = u.cycle_count
    /\ lr_last' = u.lr_last
    /\ raised' = u.raised

\* loader-start: the dispatcher sets state.loader_mode and state.is_train,
\* then OneCycleLR.on_loader_start
OneCycleLoaderStart ==
    /\ pc = "loader_start"
    /\ cycle_count < MaxCycles
    /\ LET lm == loaders[loader_idx]
           train == startswith(lm, TrainPrefix)
           total == IF train THEN Some(LoaderLen(lm) * cycle_len) ELSE total_iter
           cut == IF train THEN Some(Get(total) \div cut_div) ELSE cut_point
           u == update_optimizer(train, state_lr, state_momentum, param_groups,
                                 init_lr, div, momentum_range, cycle_iter,
                                 OrZero(cut), OrZero(total), cycle_count)
       IN  /\ loader_mode' = lm
           /\ is_train' = train
           /\ total_iter' = total
           /\ cut_point' = cut
           /\ ApplyUpdate(u)
           /\ pc' = IF u.raised # NoException THEN "aborted" ELSE "batch"
    /\ batch' = 0
    /\ UNCHANGED <<epoch, mode, loaders, loader_idx, loader_len, init_lr, div,
                   cut_div, cycle_len, momentum_range>>
    /\ UNCHANGED <<ckonly, findvars, optvars>>

\* batch-end: LRUpdater.on_batch_end
OneCycleBatchEnd ==
    /\ pc = "batch"
    /\ batch < LoaderLen(loader_mode)
    /\ cycle_count < MaxCycles
    /\ LET u == update_optimizer(is_train, state_lr, state_momentum,
                                 param_groups, init_lr, div, momentum_range,
                                 cycle_iter,
                                 OrZero(cut_point), OrZero(total_iter),
                                 cycle_count)
       IN  /\ ApplyUpdate(u)
           /\ pc' = IF u.raised # NoException THEN "aborted" ELSE "batch"
    /\ batch' = batch + 1
    /\ UNCHANGED <<epoch, loader_mode, mode, loaders, loader_idx, loader_len,
                   is_train, init_lr, div, cut_div, cycle_len, momentum_range,
                   total_iter, cut_point>>
    /\ UNCHANGED <<ckonly, findvars, optvars>>

\* loader-end: the dispatcher goes on to the next loader, or the next epoch
OneCycleLoaderEnd ==
    /\ pc = "batch"
    /\ batch = LoaderLen(loader_mode)
    /\ pc' = "loader_start"
    /\ IF loader_idx < Len(loaders)
       THEN loader_idx' = loader_idx + 1 /\ epoch' = epoch
       ELSE loader_idx' = 1 /\ epoch' = epoch + 1
    /\ lr_last' = Uncomputed
    /\ UNCHANGED <<loader_mode, mode, loaders, loader_len, batch, is_train,
                   state_lr, state_momentum, param_groups, init_lr, div,
                   cut_div, cycle_len, momentum_range, total_iter, cut_point,
                   cycle_iter, cycle_count, raised>>
    /\ UNCHANGED <<ckonly, findvars, optvars>>

NextOneCycle ==
    \/ OneCycleLoaderStart
    \/ OneCycleBatchEnd
    \/ OneCycleLoaderEnd

SpecOneCycle == InitOneCycle /\ [][NextOneCycle]_vars

(***************************************************************************)
(* LRFinder.                                                               *)
(***************************************************************************)
MaxSteps == 3

\* x ** k for a natural number k
RECURSIVE RPow(_, _)
RPow(x, k) == IF k = 0 THEN FromInt(1) ELSE RMul(x, RPow(x, k - 1))

\* the ratios between successive rates that the configurations aim at
Multipliers == {Rat(2, 1), Rat(3, 2)}

\* lr_ ** (1 / n_steps): the n-th root of lr_
Root(lr_, n) == CHOOSE m \in Multipliers : RPow(m, n) = lr_

\* self.n_steps or len(state.loader): None and 0 give the loader's length
steps_or_len(n_steps_, len_) ==
    IF n_steps_ = None \/ n_steps_ = Some(0) THEN len_ ELSE Get(n_steps_)

\* LRFinder.calc_lr: the rate of call find_iter, and the counter advanced
finder_calc_lr(init_lr_, multiplier_, find_iter_) ==
    [res |-> RMul(init_lr_, RPow(multiplier_, find_iter_)),
     find_iter |-> find_iter_ + 1]

\* mutant: the range is exhausted one call earlier
exhausted_ge(find_iter_, n_steps_) == find_iter_ >= Get(n_steps_)

\* self.find_iter > self.n_steps
exhausted(find_iter_, n_steps_) == find_iter_ > Get(n_steps_)

\* what an LRFinder hook leaves when it computes nothing
FinderUncomputed ==
    [called |-> FALSE, hook |-> "", i |-> 0, lr |-> None, momentum |-> None]

\* LRUpdater.update_optimizer for an LRFinder: when training, calc_lr written
\* to the optimizer's groups and to the state (calc_momentum is the base
\* class's and returns None, so no momentum is written); else zeros in the
\* state only
finder_update_optimizer(hook, is_train_, state_lr_, state_momentum_, groups_, init_lr_, multiplier_, find_iter_) ==
    IF ~trains(is_train_)
    THEN [state_lr |-> [state_lr_ EXCEPT ![optimizer_key] = FromInt(0)],
          state_momentum |-> [state_momentum_ EXCEPT ![optimizer_key] = FromInt(0)],
          param_groups |-> groups_,
          find_iter |-> find_iter_,
          lr_last |-> FinderUncomputed]
    ELSE LET c == finder_calc_lr(init_lr_, Get(multiplier_), find_iter_)
         IN  [state_lr |-> [state_lr_ EXCEPT ![optimizer_key] = c.res],
              state_momentum |-> state_momentum_,
              param_groups |->
                  [groups_ EXCEPT ![optimizer_key] = update_lr(@, c.res)],
              find_iter |-> c.find_iter,
              lr_last |-> [called |-> TRUE, hook |-> hook, i |-> find_iter_,
                           lr |-> Some(c.res), momentum |-> None]]

\* the configurations: small ranges, and init_lr = 2^-10, final_lr = 1,
\* n_steps = 10 on a loader of 12 batches
FinderConfigs ==
    {[init_lr |-> Rat(1, 8),
      final_lr |-> RMul(Rat(1, 8), RPow(m, steps_or_len(n, l))),
      n_steps |-> n,
      loader_len |-> l] :
        m \in Multipliers,
        n \in {None} \cup {Some(k) : k \in 0..MaxSteps},
        l \in 1..MaxLoaderLen}
    \cup {[init_lr |-> Rat(1, 1024), final_lr |-> FromInt(1),
           n_steps |-> Some(10), loader_len |-> 12]}

\* the OneCycleLR is not the registered schedule
NoOneCycle ==
    /\ div = 0
    /\ cut_div = 0
    /\ cycle_len = 0
    /\ momentum_range = None
    /\ total_iter = None
    /\ cut_point = None
    /\ cycle_iter = 0
    /\ cycle_count = 0

onecyclevars == <<div, cut_div, cycle_len, momentum_range, total_iter,
                  cut_point, cycle_iter, cycle_count>>

InitFinder ==
    /\ NoCheckpointing
    /\ NoOneCycle
    /\ NoOptimizerCallback
    /\ \E c \in FinderConfigs :
          /\ init_lr = c.init_lr
          /\ final_lr = Some(c.final_lr)
          /\ n_steps = c.n_steps
          /\ loader_len = c.loader_len
    /\ multiplier = Some(FromInt(0))
    /\ find_iter = 0
    /\ \E has_betas \in BOOLEAN :
          param_groups = [main |-> <<Group(has_betas), Group(has_betas)>>,
                          aux |-> <<Group(has_betas)>>]
    /\ state_lr = [main |-> None, aux |-> None]
    /\ state_momentum = [main |-> None, aux |-> None]
    /\ mode = "train"
    /\ loaders \in LoaderConfigs
    /\ epoch = 0
    /\ loader_idx = 1
    /\ loader_mode = <<>>
    /\ is_train = FALSE
    /\ batch = 0
    /\ pc = "loader_start"
    /\ raised = NoException
    /\ lr_last = FinderUncomputed

\* what the hooks of the LRFinder write
ApplyFinderUpdate(u) ==
    /\ state_lr' = u.state_lr
    /\ state_momentum' = u.state_momentum
    /\ param_groups' = u.param_groups
    /\ find_iter' = u.find_iter
    /\ lr_last' = u.lr_last

\* loader-start: the dispatcher sets state.loader_mode and state.is_train,
\* then LRFinder.on_loader_start
FinderLoaderStart ==
    /\ pc = "loader_start"
    /\ LET lm == loaders[loader_idx]
           train == startswith(lm, TrainPrefix)
           lr_ == RDiv(Get(final_lr), init_lr)
           steps == IF train THEN Some(steps_or_len(n_steps, LoaderLen(lm)))
                    ELSE n_steps
           mult == IF train THEN Some(Root(lr_, Get(steps))) ELSE multiplier
           u == finder_update_optimizer("loader_start", train, state_lr,
                                        state_momentum, param_groups, init_lr,
                                        mult, find_iter)
       IN  /\ loader_mode' = lm
           /\ is_train' = train
           /\ n_steps' = steps
           /\ multiplier' = mult
           /\ ApplyFinderUpdate(u)
    /\ pc' = "batch"
    /\ batch' = 0
    /\ UNCHANGED <<epoch, mode, loaders, loader_idx, loader_len, init_lr,
                   final_lr, raised>>
    /\ UNCHANGED <<ckonly, onecyclevars, optvars>>

\* batch-end: LRFinder.on_batch_end, the update and then the test that ends
\* the search (an int is not comparable with None: TypeError)
FinderBatchEnd ==
    /\ pc = "batch"
    /\ batch < LoaderLen(loader_mode)
    /\ LET u == finder_update_optimizer("batch_end", is_train, state_lr,
                                        state_momentum, param_groups, init_lr,
                                        multiplier, find_iter)
           exc == IF n_steps = None THEN "TypeError"
                  ELSE IF exhausted(u.find_iter, n_steps)
                       THEN "NotImplementedError"
                       ELSE NoException
       IN  /\ ApplyFinderUpdate(u)
           /\ raised' = exc
           /\ pc' = IF exc # NoException THEN "aborted" ELSE "batch"
    /\ batch' = batch + 1
    /\ UNCHANGED <<epoch, loader_mode, mode, loaders, loader_idx, loader_len,
                   is_train, init_lr, final_lr, n_steps, multiplier>>
    /\ UNCHANGED <<ckonly, onecyclevars, optvars>>

\* loader-end: the dispatcher goes on to the next loader, or the next epoch
FinderLoaderEnd ==
    /\ pc = "batch"
    /\ batch = LoaderLen(loader_mode)
    /\ pc' = "loader_start"
    /\ IF loader_idx < Len(loaders)
       THEN loader_idx' = loader_idx + 1 /\ epoch' = epoch
       ELSE loader_idx' = 1 /\ epoch' = epoch + 1
    /\ lr_last' = FinderUncomputed
    /\ UNCHANGED <<loader_mode, mode, loaders, loader_len, batch, is_train,
                   state_lr, state_momentum, param_groups, init_lr, raised>>
    /\ UNCHANGED <<findvars, ckonly, onecyclevars, optvars>>

NextFinder ==
    \/ FinderLoaderStart
    \/ FinderBatchEnd
    \/ FinderLoaderEnd

SpecFinder == InitFinder /\ [][NextFinder]_vars

(***************************************************************************)
(* Either schedule of the source registered as the run's LRUpdater: the    *)
(* OneCycleLR, which computes a rate and a momentum, or the LRFinder,      *)
(* which computes a rate and inherits the calc_momentum that returns None. *)
(***************************************************************************)
\* which of the two schedules the run was constructed with
OneCycleRegistered == momentum_range # None
FinderRegistered == final_lr # None

InitLRUpdater == InitOneCycle \/ InitFinder

NextLRUpdater ==
    \/ OneCycleRegistered /\ OneCycleLoaderStart
    \/ OneCycleRegistered /\ OneCycleBatchEnd
    \/ OneCycleRegistered /\ OneCycleLoaderEnd
    \/ FinderRegistered /\ FinderLoaderStart
    \/ FinderRegistered /\ FinderBatchEnd
    \/ FinderRegistered /\ FinderLoaderEnd

SpecLRUpdater == InitLRUpdater /\ [][NextLRUpdater]_vars

(***************************************************************************)
(* BasicOptimizerCallback.  An optimizer is the sequence of its parameter  *)
(* groups; a group has a rate, a weight_decay field (None when the group   *)
(* has no such key) and one parameter tensor with its data and gradient.   *)
(* torch's own operations (zero_grad, backward, clip_grad_norm_, step) are *)
(* modelled by what they do to one scalar tensor, step as plain SGD.       *)
(***************************************************************************)
MaxOptEpochs == 2
MaxBatches == 2
fp16_grad_scale == 128

RNeg(a) == <<-a[1], a[2]>>
RAbs(a) == <<Abs(a[1]), a[2]>>

\* the keys of the optimizer mapping, in the order of optimizer.items()
KeyOrder == <<"main", "aux">>
items(mapping) == SelectSeq(KeyOrder, LAMBDA key : key \in DOMAIN mapping)

\* one call of the batch-end hook: what is called, on which optimizer and
\* group, and the value it read and the value it left
Call(op, key, group, before, after) ==
    [op |-> op, key |-> key, group |-> group, before |-> before, after |-> after]

\* optimizer_.param_groups[0].get("weight_decay", 0.0)
get_weight_decay(group) ==
    IF group.weight_decay = None THEN FromInt(0) ELSE Get(group.weight_decay)

\* BasicOptimizerCallback.on_epoch_start: the optimizers whose first group
\* has a positive weight decay, remembered
remembered_wds(optimizer_) ==
    [key \in {k \in DOMAIN optimizer_ :
                RLt(FromInt(0), get_weight_decay(optimizer_[k][1]))} |->
        get_weight_decay(optimizer_[key][1])]

\* BasicOptimizerCallback.on_epoch_start: ... and zeroed on the first group
optimizer_on_epoch_start(optimizer_) ==
    LET wds == remembered_wds(optimizer_)
    IN  [key \in DOMAIN optimizer_ |->
            IF key \in DOMAIN wds
            THEN [optimizer_[key] EXCEPT ![1].weight_decay = Some(FromInt(0))]
            ELSE optimizer_[key]]

\* mutant: the epoch-end leaves the field zeroed
restored_zero(value) == Some(FromInt(0))

\* param_groups[0]["weight_decay"] = value
restored(value) == Some(value)

\* BasicOptimizerCallback.on_epoch_end
optimizer_on_epoch_end(optimizer_, optimizer_wds_) ==
    [key \in DOMAIN optimizer_ |->
        IF key \in DOMAIN optimizer_wds_
        THEN [optimizer_[key] EXCEPT
                ![1].weight_decay = restored(optimizer_wds_[key])]
        ELSE optimizer_[key]]

\* mutant: the decay is added
decayed_up(data, wd, lr) == RAdd(data, RMul(RMul(wd, lr), data))

\* param.data.add(-wd * group["lr"], param.data)
decayed(data, wd, lr) == RAdd(data, RMul(RMul(RNeg(wd), lr), data))

\* torch.nn.utils.clip_grad_norm_ on one tensor: a gradient of norm above
\* max_norm is scaled down to max_norm
clip_grad_norm_(grad, max_norm) ==
    IF RLt(max_norm, RAbs(grad))
    THEN (IF grad[1] < 0 THEN RNeg(max_norm) ELSE max_norm)
    ELSE grad

\* optimizer.step() as SGD: the gradient plus the optimizer's own weight
\* decay, times the rate, is subtracted
sgd_step(group) ==
    [group EXCEPT !.param =
        RSub(@, RMul(group.lr,
                     RAdd(group.grad, RMul(get_weight_decay(group), @))))]

\* BasicOptimizerCallback.grad_step, the loop over the groups of an optimizer
\* whose weight decay is remembered: the decay of the group's parameter, then
\* the clip of the group's gradient when grad_clip is set
RECURSIVE decay_and_clip(_, _, _, _, _, _)
decay_and_clip(groups, g, key, wd, grad_clip_, calls) ==
    IF g > Len(groups)
    THEN [groups |-> groups, calls |-> calls]
    ELSE LET group == groups[g]
             data == decayed(group.param, wd, group.lr)
             with_decay == [group EXCEPT !.param = data]
             decay_call == Append(calls, Call("decay", key, g, group.param, data))
         IN  IF grad_clip_ = None
             THEN decay_and_clip([groups EXCEPT ![g] = with_decay], g + 1,
                                 key, wd, grad_clip_, decay_call)
             ELSE LET grad == clip_grad_norm_(group.grad, Get(grad_clip_))
                  IN  decay_and_clip(
                          [groups EXCEPT ![g] = [with_decay EXCEPT !.grad = grad]],
                          g + 1, key, wd, grad_clip_,
                          Append(decay_call,
                                 Call("clip", key, g, group.grad, grad)))

\* BasicOptimizerCallback.grad_step, the loop over the optimizers
RECURSIVE grad_step(_, _, _, _, _)
grad_step(optimizer_, keys, optimizer_wds_, grad_clip_, calls) ==
    IF keys = <<>>
    THEN [optimizer |-> optimizer_, calls |-> calls]
    ELSE LET key == Head(keys)
             d == IF key \in DOMAIN optimizer_wds_
                  THEN decay_and_clip(optimizer_[key], 1, key,
                                      optimizer_wds_[key], grad_clip_, calls)
                  ELSE [groups |-> optimizer_[key], calls |-> calls]
             stepped == [g \in DOMAIN d.groups |-> sgd_step(d.groups[g])]
         IN  grad_step([optimizer_ EXCEPT ![key] = stepped], Tail(keys),
                       optimizer_wds_, grad_clip_,
                       Append(d.calls,
                              Call("step", key, 0, d.groups, stepped)))

\* value.zero_grad() on every optimizer: the gradient of every group is zero
zero_grad(optimizer_) ==
    [key \in DOMAIN optimizer_ |->
        [g \in DOMAIN optimizer_[key] |->
            [optimizer_[key][g] EXCEPT !.grad = FromInt(0)]]]

\* state.loss.backward(): the gradient of the loss is added to the gradient
\* of every parameter
backward(optimizer_, loss_grad) ==
    [key \in DOMAIN optimizer_ |->
        [g \in DOMAIN optimizer_[key] |->
            [optimizer_[key][g] EXCEPT !.grad = RAdd(@, loss_grad)]]]

RECURSIVE zero_grad_calls(_)
zero_grad_calls(keys) ==
    IF keys = <<>> THEN <<>>
    ELSE <<Call("zero_grad", Head(keys), 0, None, None)>>
            \o zero_grad_calls(Tail(keys))

\* mutant: reduced precision accepts any number of optimizers
single_optimizer_any(optimizer_) == TRUE

\* assert len(optimizer) == 1
single_optimizer(optimizer_) == Cardinality(DOMAIN optimizer_) = 1

\* what a batch-end hook leaves
Outcome(optimizer_, model_params_, model_grads_, calls, exc) ==
    [optimizer |-> optimizer_, model_params |-> model_params_, model_grads |-> model_grads_, calls |-> calls, raised |-> exc]

\* BasicOptimizerCallback.on_batch_end in standard precision
standard_batch_end(optimizer_, model_params_, model_grads_, optimizer_wds_, grad_clip_, loss_grad) ==
    LET zeroed == zero_grad(optimizer_)
        zero_calls == zero_grad_calls(items(optimizer_))
    IN  IF Cardinality(DOMAIN optimizer_) > 0
        THEN LET with_grads == backward(zeroed, loss_grad)
                 s == grad_step(with_grads, items(optimizer_), optimizer_wds_,
                                grad_clip_,
                                Append(zero_calls,
                                       Call("backward", "", 0, None, loss_grad)))
             IN  Outcome(s.optimizer, model_params_, model_grads_, s.calls,
                         NoException)
        ELSE Outcome(zeroed, model_params_, model_grads_, zero_calls,
                     NoException)

\* mutant: the master gradient stays scaled
mul_inverse_scale_skipped(grad) == grad

\* param.grad.data.mul_(1. / self.fp16_grad_scale)
mul_inverse_scale(grad) ==
    RMul(grad, RDiv(FromInt(1), FromInt(fp16_grad_scale)))

\* BasicOptimizerCallback.on_batch_end in reduced precision: the master
\* parameters are those of the first group of optimizer["main"], the model
\* has the reduced-precision copy of them
fp16_batch_end(optimizer_, model_params_, model_grads_, optimizer_wds_, grad_clip_, loss_grad) ==
    LET zeroed == [i \in DOMAIN model_grads_ |-> FromInt(0)]
        zero_call == <<Call("zero_grad", "model", 0, None, None)>>
    IN  IF Cardinality(DOMAIN optimizer_) = 0
        THEN Outcome(optimizer_, model_params_, zeroed, zero_call, NoException)
        ELSE IF ~single_optimizer(optimizer_)
        THEN Outcome(optimizer_, model_params_, zeroed, zero_call,
                     "AssertionError")
        ELSE LET scaled_loss == RMul(FromInt(fp16_grad_scale), loss_grad)
                 scaled_grads == [i \in DOMAIN zeroed |-> RAdd(zeroed[i], scaled_loss)]
                 backward_call ==
                     Append(zero_call,
                            Call("backward", "model", 0, None, scaled_loss))
             IN  IF "main" \notin DOMAIN optimizer_
                 THEN Outcome(optimizer_, model_params_, scaled_grads,
                              backward_call, "KeyError")
                 ELSE LET copied ==
                              [optimizer_ EXCEPT !["main"][1].grad = scaled_grads[1]]
                          unscaled ==
                              [copied EXCEPT !["main"][1].grad = mul_inverse_scale(@)]
                          s == grad_step(
                                  unscaled, items(optimizer_), optimizer_wds_,
                                  grad_clip_,
                                  backward_call \o
                                      <<Call("copy_grads", "main", 1,
                                             scaled_grads[1],
                                             copied["main"][1].grad),
                                        Call("unscale", "main", 1,
                                             copied["main"][1].grad,
                                             unscaled["main"][1].grad)>>)
                          params == <<s.optimizer["main"][1].param>>
                      IN  Outcome(s.optimizer, params, scaled_grads,
                                  s.calls \o
                                      <<Call("copy_params", "model", 0,
                                             model_params_, params),
                                        Call("synchronize", "", 0, None, None)>>,
                                  NoException)

\* BasicOptimizerCallback.on_batch_end
optimizer_on_batch_end(is_train_, fp16_, optimizer_, model_params_, model_grads_, optimizer_wds_, grad_clip_, loss_grad) ==
    IF ~is_train_
    THEN Outcome(optimizer_, model_params_, model_grads_, <<>>, NoException)
    ELSE IF ~fp16_
    THEN standard_batch_end(optimizer_, model_params_, model_grads_,
                            optimizer_wds_, grad_clip_, loss_grad)
    ELSE fp16_batch_end(optimizer_, model_params_, model_grads_,
                        optimizer_wds_, grad_clip_, loss_grad)

(***************************************************************************)
(* The lifecycle that drives a BasicOptimizerCallback: a training run of   *)
(* epochs over a training loader and a validation loader.                  *)
(***************************************************************************)
\* a parameter group
ParamGroup(lr, weight_decay) ==
    [lr |-> lr, weight_decay |-> weight_decay, param |-> FromInt(1),
     grad |-> FromInt(0)]

WeightDecays == {FromInt(0), Rat(1, 2)}

\* optimizer "main" has two groups, optimizer "aux" has one
MainOptimizers ==
    {<<ParamGroup(Rat(1, 2), wd0), ParamGroup(FromInt(1), Some(wd1))>> :
        wd0 \in {None} \cup {Some(wd) : wd \in WeightDecays},
        wd1 \in WeightDecays}

AuxOptimizers == {<<ParamGroup(FromInt(1), Some(wd))>> : wd \in WeightDecays}

\* the optimizer mapping with the given keys: no optimizer, "main" alone,
\* "aux" alone, or both
OptimizerConfig(keys, m, a) ==
    [key \in keys |-> IF key = "main" THEN m ELSE a]

\* the gradients of the batch loss
LossGrads == {FromInt(0), FromInt(2)}

\* the weight_decay fields of every group of every optimizer
WeightDecayFields(optimizer_) ==
    [key \in DOMAIN optimizer_ |->
        [g \in DOMAIN optimizer_[key] |-> optimizer_[key][g].weight_decay]]

\* no learning-rate schedule is registered, the rates are the optimizers' own
NoLRUpdater ==
    /\ state_lr = <<>>
    /\ state_momentum = <<>>
    /\ param_groups = <<>>
    /\ init_lr = None
    /\ lr_last = None

InitOptimizer ==
    /\ NoCheckpointing
    /\ NoOneCycle
    /\ NoFinder
    /\ NoLRUpdater
    /\ \E keys \in SUBSET {"main", "aux"}, m \in MainOptimizers, a \in AuxOptimizers :
          optimizers = OptimizerConfig(keys, m, a)
    /\ model_fp16 \in BOOLEAN
    /\ model_params = (IF model_fp16 THEN <<FromInt(1)>> ELSE <<>>)
    /\ model_grads = (IF model_fp16 THEN <<FromInt(0)>> ELSE <<>>)
    /\ optimizer_wds = <<>>
    /\ grad_clip \in {None, Some(FromInt(1))}
    /\ fp16 = FALSE
    /\ ops = <<>>
    /\ wd_before = WeightDecayFields(optimizers)
    /\ loader_len \in 1..MaxBatches
    /\ mode = "train"
    /\ loaders = <<Train, Valid>>
    /\ epoch = 0
    /\ loader_idx = 1
    /\ loader_mode = <<>>
    /\ is_train = FALSE
    /\ batch = 0
    /\ pc = "train_start"
    /\ raised = NoException

optimizerframe == <<mode, loaders, loader_len, model_fp16, grad_clip>>

\* BasicOptimizerCallback.on_train_start
OptimizerTrainStart ==
    /\ pc = "train_start"
    /\ fp16' = model_fp16
    /\ pc' = "epoch_start"
    /\ UNCHANGED <<epoch, loader_mode, loader_idx, batch, is_train, raised,
                   optimizers, model_params, model_grads, optimizer_wds, ops,
                   wd_before>>
    /\ UNCHANGED <<optimizerframe, ckonly, onecyclevars, findvars, state_lr,
                   state_momentum, param_groups, init_lr, lr_last>>

\* BasicOptimizerCallback.on_epoch_start
OptimizerEpochStart ==
    /\ pc = "epoch_start"
    /\ epoch < MaxOptEpochs
    /\ wd_before' = WeightDecayFields(optimizers)
    /\ optimizer_wds' = remembered_wds(optimizers)
    /\ optimizers' = optimizer_on_epoch_start(optimizers)
    /\ ops' = <<>>
    /\ loader_idx' = 1
    /\ pc' = "loader_start"
    /\ UNCHANGED <<epoch, loader_mode, batch, is_train, raised, model_params,
                   model_grads, fp16>>
    /\ UNCHANGED <<optimizerframe, ckonly, onecyclevars, findvars, state_lr,
                   state_momentum, param_groups, init_lr, lr_last>>

\* loader-start: the dispatcher sets state.loader_mode and state.is_train
OptimizerLoaderStart ==
    /\ pc = "loader_start"
    /\ loader_mode' = loaders[loader_idx]
    /\ is_train' = startswith(loaders[loader_idx], TrainPrefix)
    /\ batch' = 0
    /\ ops' = <<>>
    /\ pc' = "batch"
    /\ UNCHANGED <<epoch, loader_idx, raised, optimizers, model_params,
                   model_grads, optimizer_wds, fp16, wd_before>>
    /\ UNCHANGED <<optimizerframe, ckonly, onecyclevars, findvars, state_lr,
                   state_momentum, param_groups, init_lr, lr_last>>

\* batch-end: BasicOptimizerCallback.on_batch_end with the gradient of the
\* batch's loss
OptimizerBatchEnd ==
    /\ pc = "batch"
    /\ batch < LoaderLen(loader_mode)
    /\ \E loss_grad \in (IF is_train THEN LossGrads ELSE {FromInt(0)}) :
          LET o == optimizer_on_batch_end(is_train, fp16, optimizers,
                                          model_params, model_grads,
                                          optimizer_wds, grad_clip, loss_grad)
          IN  /\ optimizers' = o.optimizer
              /\ model_params' = o.model_params
              /\ model_grads' = o.model_grads
              /\ ops' = o.calls
              /\ raised' = o.raised
              /\ pc' = IF o.raised # NoException THEN "aborted" ELSE "batch"
    /\ batch' = batch + 1
    /\ UNCHANGED <<epoch, loader_mode, loader_idx, is_train, optimizer_wds,
                   fp16, wd_before>>
    /\ UNCHANGED <<optimizerframe, ckonly, onecyclevars, findvars, state_lr,
                   state_momentum, param_groups, init_lr, lr_last>>

\* loader-end: the dispatcher goes on to the next loader, or to the epoch-end
OptimizerLoaderEnd ==
    /\ pc = "batch"
    /\ batch = LoaderLen(loader_mode)
    /\ IF loader_idx < Len(loaders)
       THEN loader_idx' = loader_idx + 1 /\ pc' = "loader_start"
       ELSE loader_idx' = loader_idx /\ pc' = "epoch_end"
    /\ UNCHANGED <<epoch, loader_mode, batch, is_train, raised, optimizers,
                   model_params, model_grads, optimizer_wds, fp16, ops,
                   wd_before>>
    /\ UNCHANGED <<optimizerframe, ckonly, onecyclevars, findvars, state_lr,
                   state_momentum, param_groups, init_lr, lr_last>>

\* BasicOptimizerCallback.on_epoch_end, then the dispatcher counts the epoch
OptimizerEpochEnd ==
    /\ pc = "epoch_end"
    /\ optimizers' = optimizer_on_epoch_end(optimizers, optimizer_wds)
    /\ ops' = <<>>
    /\ epoch' = epoch + 1
    /\ pc' = "epoch_start"
    /\ UNCHANGED <<loader_mode, loader_idx, batch, is_train, raised,
                   model_params, model_grads, optimizer_wds, fp16, wd_before>>
    /\ UNCHANGED <<optimizerframe, ckonly, onecyclevars, findvars, state_lr,
                   state_momentum, param_groups, init_lr, lr_last>>

NextOptimizer ==
    \/ OptimizerTrainStart
    \/ OptimizerEpochStart
    \/ OptimizerLoaderStart
    \/ OptimizerBatchEnd
    \/ OptimizerLoaderEnd
    \/ OptimizerEpochEnd

SpecOptimizer == InitOptimizer /\ [][NextOptimizer]_vars

(***************************************************************************)
(* Properties of the CheckpointCallback, checked under Spec.                *)
(***************************************************************************)
Min(a, b) == IF a <= b THEN a ELSE b
Range(list) == {list[i] : i \in 1..Len(list)}
MetricOf(entry) == FloatVal(entry[2])

\* the step in which on_epoch_end ran, and the one in which it saved
EpochEndStep == pc = "epoch_end" /\ pc' # pc
SaveStep == EpochEndStep /\ last'.saved

\* entry x is strictly worse than entry y under the active ordering
Worse(x, y) ==
    IF minimize THEN MetricOf(x) > MetricOf(y) ELSE MetricOf(x) < MetricOf(y)

\* C1: after every save_checkpoint call of a run that started with an empty
\* retained list, the list holds at most save_n_best entries: as many as there
\* were saves, up to save_n_best; so after save_n_best + 1 saves it holds
\* exactly save_n_best entries.
C1_RetainedBounded ==
    /\ Len(top_best_metrics) <= save_n_best
    /\ Len(top_best_metrics) = Min(n_saves, save_n_best)

\* save_n_best + 1 saves with pairwise distinct metrics have happened
C1_Witness ==
    /\ save_n_best >= 2
    /\ n_saves = save_n_best + 1
    /\ last.evicted # None
    /\ Len(top_best_metrics) = save_n_best
    /\ Cardinality({MetricOf(e) :
                      e \in Range(top_best_metrics) \cup {Get(last.evicted)}})
         = n_saves

\* C2: after every save_checkpoint call the retained list is sorted by metric,
\* ascending when minimize and descending otherwise, so that no retained entry
\* is better than the one at index 0.
C2_RetainedSorted ==
    \A i, j \in 1..Len(top_best_metrics) :
        i < j => ~Worse(top_best_metrics[i], top_best_metrics[j])

\* maximizing, the checkpoint of epoch 1 has been sorted in front of the one of
\* epoch 0
C2_Witness ==
    /\ ~minimize
    /\ Len(top_best_metrics) >= 2
    /\ top_best_metrics[1][1] = CheckpointPath(logdir, Str(1))
    /\ top_best_metrics[2][1] = CheckpointPath(logdir, Str(0))
    /\ MetricOf(top_best_metrics[1]) > MetricOf(top_best_metrics[2])

\* C3: a save that makes the list exceed save_n_best removes exactly one
\* entry, one that no entry (the new one included) is worse than, and deletes
\* exactly that entry's file; a save within the bound deletes no file.
C3_EvictsWorst ==
    [][SaveStep =>
        LET new == Get(last'.entry)
            all == Range(top_best_metrics) \cup {new}
        IN  IF Len(top_best_metrics) + 1 > save_n_best
            THEN /\ last'.evicted # None
                 /\ LET ev == Get(last'.evicted)
                    IN  /\ ev \in all
                        /\ \A e \in all : ~Worse(e, ev)
                        /\ Range(top_best_metrics') = all \ {ev}
                        /\ Len(top_best_metrics') = Len(top_best_metrics)
                        /\ last'.removed = {ev[1]}
                        /\ DOMAIN files' =
                             (DOMAIN files \cup last'.written) \ {ev[1]}
            ELSE /\ last'.evicted = None
                 /\ last'.removed = {}
                 /\ Range(top_best_metrics') = all
                 /\ Len(top_best_metrics') = Len(top_best_metrics) + 1
                 /\ DOMAIN files' = DOMAIN files \cup last'.written
    ]_vars

\* an older checkpoint, not the one just saved, has been evicted and its file
\* is gone
C3_Witness ==
    /\ last.saved
    /\ last.evicted # None
    /\ last.evicted # last.entry
    /\ Len(top_best_metrics) >= 1
    /\ ~isfile(files, Get(last.evicted)[1])

\* the main metric of the new validation snapshot, as the saving hook recorded
\* it, and of a best_metrics value
NewMetric == MetricOf(Get(last'.entry))
MainOf(best) == FloatVal(Get(best)[main_metric])

\* C4: with minimize set, is_best is true exactly when best_metrics is None or
\* the new validation main metric is less than or equal to the current best.
C4_IsBestMinimize ==
    [][SaveStep /\ minimize =>
        (last'.is_best <=>
            (best_metrics = None \/ NewMetric <= MainOf(best_metrics)))
    ]_vars

\* minimizing, a validation metric equal to that of an earlier retained
\* checkpoint was judged best
C4_Witness ==
    /\ minimize
    /\ last.saved
    /\ last.is_best
    /\ n_saves >= 2
    /\ \E e \in Range(top_best_metrics) :
          /\ e # Get(last.entry)
          /\ MetricOf(e) = MetricOf(Get(last.entry))

\* C5: with minimize unset, is_best is true exactly when best_metrics is None
\* or the new validation main metric is greater than or equal to the current
\* best; a metric equal to the current best yields is_best = true.
C5_IsBestMaximize ==
    [][SaveStep /\ ~minimize =>
        (last'.is_best <=>
            (best_metrics = None \/ NewMetric >= MainOf(best_metrics)))
    ]_vars

\* the snapshot of the loader that has just ended
SnapshotOf(lm) ==
    epoch_metrics[CHOOSE i \in 1..Len(epoch_metrics) : epoch_metrics[i][1] = lm][2]

\* the best of a set of metric values under the active ordering
BestOf(values) ==
    CHOOSE x \in values :
        \A y \in values : IF minimize THEN x <= y ELSE x >= y

\* C6: at a validation epoch-end state.best_metrics becomes the (float-valued
\* part of the) new validation snapshot iff is_best, and otherwise keeps its
\* content; its main metric is always the minimum (minimize) or maximum
\* (maximize) of the resumed best and the validation values processed so far,
\* and never gets worse.
C6_BestMetrics ==
    /\ [][EpochEndStep /\ startswith(loader_mode, ValidPrefix) =>
            best_metrics' =
                IF last'.is_best THEN Some(FloatOnly(SnapshotOf(loader_mode)))
                ELSE best_metrics
       ]_vars
    /\ [](best_metrics # None => MainOf(best_metrics) = BestOf(processed))
    /\ [][best_metrics # None /\ best_metrics' # None =>
            IF minimize THEN MainOf(best_metrics') <= MainOf(best_metrics)
            ELSE MainOf(best_metrics') >= MainOf(best_metrics)
       ]_vars

\* a validation epoch that was not the best left best_metrics at an earlier,
\* different value, with a meter among the snapshot's entries
C6_Witness ==
    /\ last.saved
    /\ ~last.is_best
    /\ with_meters
    /\ best_metrics # None
    /\ MainOf(best_metrics) # MetricOf(Get(last.entry))
    /\ Cardinality(processed) >= 2

\* the step in which the mode-start hook ran
ModeStartStep == pc = "mode_start" /\ pc' # pc

\* C7: mode-start (train or infer) with a resume path whose file does not
\* exist raises, the run is aborted, and state.epoch, state.best_metrics, the
\* model, the optimizers and the schedulers are unchanged; without a resume
\* path mode-start changes nothing.
C7_ResumeMissing ==
    [][ModeStartStep =>
        /\ resume # None /\ ~isfile(files, Get(resume)) =>
              /\ raised' = "no checkpoint found"
              /\ pc' = "aborted"
              /\ UNCHANGED <<epoch, best_metrics, model, optimizer, scheduler,
                             top_best_metrics, files>>
        /\ resume = None =>
              /\ raised' = NoException
              /\ pc' = "epoch_start"
              /\ UNCHANGED <<epoch, best_metrics, model, optimizer, scheduler,
                             top_best_metrics, files>>
    ]_vars

\* an infer run was aborted at mode-start because its resume file is missing
C7_Witness ==
    /\ mode = "infer"
    /\ resume # None
    /\ ~isfile(files, Get(resume))
    /\ raised = "no checkpoint found"
    /\ pc = "aborted"

\* C8: the checkpoint written at a validation epoch-end (and its "best" copy)
\* records state.epoch and the state.best_metrics of after that epoch-end's
\* update; resuming from an existing checkpoint sets state.epoch and
\* state.best_metrics to the recorded values, which are never None, so the
\* next validation is compared against the recorded best.
C8_ResumeRoundTrip ==
    /\ [][SaveStep =>
            \A p \in last'.written \cap DOMAIN files' :
                /\ files'[p].epoch = epoch
                /\ files'[p].best_metrics = best_metrics'
                /\ files'[p].best_metrics # None
       ]_vars
    /\ [][ModeStartStep /\ resume # None /\ isfile(files, Get(resume)) =>
            /\ raised' = NoException
            /\ epoch' = files[Get(resume)].epoch
            /\ best_metrics' = files[Get(resume)].best_metrics
            /\ best_metrics' # None
       ]_vars
    /\ [][SaveStep /\ resume # None /\ n_saves = 0 =>
            /\ best_metrics # None
            /\ NewMetric > MainOf(best_metrics) => (last'.is_best <=> ~minimize)
            /\ NewMetric < MainOf(best_metrics) => (last'.is_best <=> minimize)
       ]_vars

\* a resumed run has saved its first checkpoint, which was not the best: it
\* was compared with the best of the run before
C8_Witness ==
    /\ run = "second"
    /\ resume # None
    /\ n_saves = 1
    /\ last.saved
    /\ ~last.is_best
    /\ epoch >= 2

\* C9: at epoch-end with a loader mode that starts with "valid" exactly one
\* checkpoint is written under the epoch's name (plus the "best" copy when
\* is_best) and appended to the retained list, is_best or not; with any other
\* loader mode nothing is written and the retained list, the files and
\* state.best_metrics are unchanged.
C9_SavesOnlyAfterValid ==
    [][EpochEndStep =>
        IF startswith(loader_mode, ValidPrefix)
        THEN /\ last'.saved
             /\ n_saves' = n_saves + 1
             /\ last'.written \ {BestPath(logdir)} =
                    {CheckpointPath(logdir, Str(epoch))}
             /\ (BestPath(logdir) \in last'.written) <=> last'.is_best
             /\ last'.entry # None
             /\ Get(last'.entry)[1] = CheckpointPath(logdir, Str(epoch))
             /\ \/ Get(last'.entry) \in Range(top_best_metrics')
                \/ last'.evicted = last'.entry
        ELSE /\ ~last'.saved
             /\ last'.written = {}
             /\ last'.removed = {}
             /\ UNCHANGED <<top_best_metrics, files, best_metrics, n_saves>>
    ]_vars

\* a checkpoint that is not the best was written and is retained
C9_Witness ==
    /\ last.saved
    /\ ~last.is_best
    /\ last.entry # None
    /\ Get(last.entry) \in Range(top_best_metrics)
    /\ isfile(files, Get(last.entry)[1])

(***************************************************************************)
(* Properties of OneCycleLR, checked under SpecOneCycle.                   *)
(***************************************************************************)
\* the rate of iteration i as one fraction: init_lr * (1 + percent*(div-1)) / div
\* with percent = i/cut_point up to the cut point and
\* 1 - (i - cut_point)/(total_iter - cut_point) = (total_iter - i)/(total_iter - cut_point)
\* behind it
OneCycleRate(i, cut, total) ==
    IF i <= cut
    THEN RDiv(RMul(init_lr, FromInt(cut + i * (div - 1))), FromInt(cut * div))
    ELSE RDiv(RMul(init_lr, FromInt((total - cut) + (total - i) * (div - 1))),
              FromInt((total - cut) * div))

\* what C10 says of every rate but that of the last iteration of the cycle
OneCycleRateCommon(i, rate, cut, total) ==
    /\ 0 <= i /\ i < total
    /\ cut >= 1
    /\ rate = OneCycleRate(i, cut, total)
    /\ i = 0 => rate = RDiv(init_lr, FromInt(div))
    /\ i = cut => rate = init_lr
    /\ RLe(RDiv(init_lr, FromInt(div)), rate)
    /\ RLe(rate, init_lr)

StrictlyBetween(rate) ==
    RLt(RDiv(init_lr, FromInt(div)), rate) /\ RLt(rate, init_lr)

\* C10 as stated: calc_lr at iteration i returns the piecewise-linear rate, so
\* lr(0) = init_lr/div, lr(cut_point) = init_lr, every rate lies in
\* [init_lr/div, init_lr], and lr(total_iter-1) lies strictly between the two
\* bounds.
C10_OneCycleRateStrict ==
    lr_last.called =>
        LET i == lr_last.i
            rate == Get(lr_last.lr)
        IN  /\ OneCycleRateCommon(i, rate, Get(cut_point), Get(total_iter))
            /\ i = Get(total_iter) - 1 => StrictlyBetween(rate)

\* C10, amended: as above, but lr(total_iter-1) lies strictly between the two
\* bounds exactly when div > 1, total_iter >= 2 and cut_point # total_iter - 1
\* (it is init_lr/div = init_lr when div = 1, init_lr/div when total_iter = 1,
\* and init_lr when the last iteration is the cut point).
C10_OneCycleRate ==
    lr_last.called =>
        LET i == lr_last.i
            rate == Get(lr_last.lr)
            total == Get(total_iter)
            cut == Get(cut_point)
        IN  /\ OneCycleRateCommon(i, rate, cut, total)
            /\ i = total - 1 =>
                  (StrictlyBetween(rate) <=>
                      (div > 1 /\ total >= 2 /\ cut # total - 1))

\* div=10, cut_div=4, total_iter=100: the rate of iteration 99 has been
\* computed and lies strictly between init_lr/10 and init_lr
C10_Witness ==
    /\ lr_last.called
    /\ div = 10
    /\ cut_div = 4
    /\ total_iter = Some(100)
    /\ cut_point = Some(25)
    /\ lr_last.i = 99
    /\ StrictlyBetween(Get(lr_last.lr))

\* the percent of iteration i as calc_lr computes it, taken from the rate
\* formula of C10: 0 at the start of the cycle, 1 at the cut point
PercentOf(i, cut, total) ==
    IF i <= cut THEN Rat(i, cut) ELSE Rat(total - i, total - cut)

\* the complementary interpolation: max_momentum at percent 0, min_momentum
\* at percent 1 (momentum_range is (max_momentum, min_momentum))
ComplementaryMomentum(percent) ==
    RSub(momentum_range[1],
         RMul(percent, RSub(momentum_range[1], momentum_range[2])))

\* C11 as stated: in every training update of OneCycleLR the momentum written
\* to the state and to the optimizer's groups is the complementary
\* interpolation at the percent of the iteration whose learning rate the same
\* update wrote, so the update of iteration 0 writes lr = init_lr/div together
\* with momentum = momentum_range[0].
C11_MomentumSamePercent ==
    (lr_last.called /\ lr_last.momentum # None) =>
        LET i == lr_last.i
            m == ComplementaryMomentum(
                     PercentOf(i, Get(cut_point), Get(total_iter)))
        IN  /\ Get(lr_last.momentum) = m
            /\ state_momentum[optimizer_key] = m
            /\ i = 0 => /\ state_lr[optimizer_key] = RDiv(init_lr, FromInt(div))
                        /\ state_momentum[optimizer_key] = momentum_range[1]

\* the training epochs completed so far: the epochs over, and the current one
\* once its training loader has run all its batches
TrainEpochsDone ==
    epoch + (IF \E k \in 1..Len(loaders) :
                    /\ startswith(loaders[k], TrainPrefix)
                    /\ \/ k < loader_idx
                       \/ /\ k = loader_idx
                          /\ pc = "batch"
                          /\ batch = loader_len
             THEN 1 ELSE 0)

\* C12 as stated: one cycle spans exactly cycle_len training epochs, so the
\* iteration counter wraps to 0 and cycle_count grows by one only at the last
\* batch-end of a training epoch that completes a block of cycle_len training
\* epochs, and cycle_count is the number of completed blocks.
C12_CycleSpansEpochs ==
    /\ [][cycle_count' # cycle_count =>
            /\ is_train
            /\ pc = "batch"
            /\ batch' = loader_len
            /\ cycle_iter' = 0
            /\ cycle_count' = cycle_count + 1
         ]_vars
    /\ [](pc # "aborted" => cycle_count = TrainEpochsDone \div cycle_len)

(***************************************************************************)
(* Properties of the LRFinder, checked under SpecFinder.                   *)
(***************************************************************************)
Exhausted == "NotImplementedError"

\* an LRFinder hook calls calc_lr
FinderCallStep == lr_last'.called /\ lr_last' # lr_last

\* C13 as stated, for n_steps = 10: the calls k = 0..10 return
\* init_lr * m^k with m = (final_lr/init_lr)^(1/n_steps) and do not signal,
\* and call k = 11 signals range exhausted instead of returning a rate.
C13_TwelfthCallSignals ==
    (n_steps = Some(10) /\ lr_last.called) =>
        /\ RPow(Get(multiplier), 10) = RDiv(Get(final_lr), init_lr)
        /\ lr_last.i <= 10
        /\ Get(lr_last.lr) = RMul(init_lr, RPow(Get(multiplier), lr_last.i))
        /\ raised # Exhausted

\* C13, amended: the calls return a geometric sequence, call 0 returns
\* init_lr, every later call returns the previous rate times the fixed
\* multiplier m with m^n_steps = final_lr/init_lr, so call k = n_steps returns
\* final_lr; calc_lr never signals: range exhausted is raised by the batch-end
\* hook, after its own call has been written, exactly when that call is
\* call k >= n_steps (so the call counter exceeds n_steps).
C13_GeometricCalls ==
    /\ [][FinderCallStep =>
            LET k == lr_last'.i
                rate == Get(lr_last'.lr)
                m == Get(multiplier')
            IN  /\ RPow(m, Get(n_steps')) = RDiv(Get(final_lr), init_lr)
                /\ k = find_iter /\ find_iter' = k + 1
                /\ k = 0 => rate = init_lr
                /\ k > 0 => rate = RMul(param_groups[optimizer_key][1].lr, m)
                /\ k = Get(n_steps') => rate = Get(final_lr)
                /\ state_lr'[optimizer_key] = rate
                /\ \A g \in DOMAIN param_groups'[optimizer_key] :
                      param_groups'[optimizer_key][g].lr = rate
                /\ raised' = Exhausted <=>
                      (lr_last'.hook = "batch_end" /\ k >= Get(n_steps'))
         ]_vars
    /\ [](raised = Exhausted => lr_last.called)

\* init_lr = 2^-10, final_lr = 1, n_steps = 10: the 11th call (k = 10) has
\* written final_lr and its batch-end hook has signalled range exhausted
C13_Witness ==
    /\ n_steps = Some(10)
    /\ init_lr = Rat(1, 1024)
    /\ multiplier = Some(FromInt(2))
    /\ lr_last.called
    /\ lr_last.hook = "batch_end"
    /\ lr_last.i = 10
    /\ Get(lr_last.lr) = Get(final_lr)
    /\ raised = Exhausted

\* the training batch-ends so far, in the state a training batch-end leaves
TrainBatchEnds == epoch * loader_len + batch

\* C14 as stated: the first training loader-start writes exponent k = 0 and
\* the j-th training batch-end writes k = j; range exhausted is signalled at
\* the n_steps-th training batch-end, right after it wrote k = n_steps, and
\* at no other hook; no rate beyond final_lr is ever written.
C14_FinderLifecycle ==
    /\ lr_last.called =>
          /\ (lr_last.hook = "loader_start" /\ epoch = 0) => lr_last.i = 0
          /\ lr_last.hook = "batch_end" => lr_last.i = TrainBatchEnds
          /\ RLe(Get(lr_last.lr), Get(final_lr))
    /\ raised = Exhausted <=>
          /\ lr_last.called
          /\ lr_last.hook = "batch_end"
          /\ TrainBatchEnds = Get(n_steps)
          /\ lr_last.i = Get(n_steps)

(***************************************************************************)
(* Properties of the LRUpdater hooks, checked under SpecOneCycle.          *)
(***************************************************************************)
\* a loader-start or batch-end hook of the schedule runs
ScheduleHookStep ==
    \/ pc = "loader_start" /\ pc' # pc
    \/ pc = "batch" /\ batch' = batch + 1

\* C15: when state.is_train is false, the loader-start and batch-end hooks of
\* the schedule set state.lr[optimizer_key] and state.momentum[optimizer_key]
\* to 0 and leave every optimizer's parameter groups (lr, momentum, betas) and
\* the schedule's own counters unchanged.
C15_NotTrainingZeroes ==
    [][(ScheduleHookStep /\ ~is_train') =>
          /\ state_lr'[optimizer_key] = FromInt(0)
          /\ state_momentum'[optimizer_key] = FromInt(0)
          /\ \A key \in DOMAIN state_lr \ {optimizer_key} :
                /\ state_lr'[key] = state_lr[key]
                /\ state_momentum'[key] = state_momentum[key]
          /\ param_groups' = param_groups
          /\ <<cycle_iter', cycle_count', total_iter', cut_point'>>
                = <<cycle_iter, cycle_count, total_iter, cut_point>>
    ]_vars

\* the batch-end of the validation loader has run after a training loader
\* that advanced the schedule and changed the optimizer's rate
C15_Witness ==
    /\ ~is_train
    /\ pc = "batch"
    /\ batch = 1
    /\ state_lr[optimizer_key] = FromInt(0)
    /\ state_momentum[optimizer_key] = FromInt(0)
    /\ cycle_iter > 0
    /\ param_groups[optimizer_key][1].lr # FromInt(1)
    /\ param_groups[optimizer_key][1].lr # FromInt(0)

(***************************************************************************)
(* Properties of the BasicOptimizerCallback, checked under SpecOptimizer.  *)
(***************************************************************************)
\* a weight_decay field that is present and positive
Positive(field) == field # None /\ RLt(FromInt(0), Get(field))

\* the positions in the calls of a hook of the calls of one operation on one
\* group of one optimizer
Calls(calls, op, key, group) ==
    {i \in DOMAIN calls :
        calls[i].op = op /\ calls[i].key = key /\ calls[i].group = group}

\* the positions of the calls of one operation
CallsOf(calls, op) == {i \in DOMAIN calls : calls[i].op = op}

\* a batch-end hook of the BasicOptimizerCallback runs
OptimizerBatchEndStep == pc = "batch" /\ batch' = batch + 1

\* C16 as stated: at every optimizer step of an epoch, an optimizer whose
\* configured weight decay is positive has no parameter group with a positive
\* weight_decay field.
C16_NoOwnDecayAtStep ==
    \A i \in CallsOf(ops, "step") :
        Positive(wd_before[ops[i].key][1]) =>
            \A g \in DOMAIN ops[i].before :
                ~Positive(ops[i].before[g].weight_decay)

\* C17: the epoch-end leaves every weight_decay field of every optimizer as it
\* was before the epoch-start, so every epoch-start of the run finds the same
\* fields, and in every epoch the decay of every optimizer whose field is
\* positive is remembered with that value.
C17_WeightDecayRoundTrip ==
    /\ [][(pc = "epoch_end" /\ pc' = "epoch_start") =>
              WeightDecayFields(optimizers') = wd_before]_vars
    /\ [][wd_before' = wd_before]_vars
    /\ [](pc \in {"loader_start", "batch", "epoch_end"} =>
            \A key \in DOMAIN optimizers :
                IF Positive(wd_before[key][1])
                THEN /\ key \in DOMAIN optimizer_wds
                     /\ optimizer_wds[key] = Get(wd_before[key][1])
                ELSE key \notin DOMAIN optimizer_wds)

\* two epochs are over, each with a training loader of two batches, and the
\* positive weight decay of optimizer "main", zeroed in each, is back
C17_Witness ==
    /\ epoch = 2
    /\ pc = "epoch_start"
    /\ loader_len = 2
    /\ "main" \in DOMAIN optimizers
    /\ Positive(wd_before["main"][1])
    /\ optimizers["main"][1].weight_decay = wd_before["main"][1]
    /\ "main" \in DOMAIN optimizer_wds
    /\ optimizers["main"][1].param # FromInt(1)

\* C18 as stated: when grad_clip is set, every optimizer step of a training
\* batch-end comes after a clip of the gradients of each group of that
\* optimizer, whether or not its weight decay is remembered.
C18_ClipsEveryOptimizer ==
    grad_clip # None =>
        \A i \in CallsOf(ops, "step") :
            \A g \in DOMAIN ops[i].before :
                \E j \in Calls(ops, "clip", ops[i].key, g) : j < i

\* the parameters of the model and of the optimizers
Parameters(optimizer_, model_params_) ==
    <<model_params_,
      [key \in DOMAIN optimizer_ |->
          [g \in DOMAIN optimizer_[key] |-> optimizer_[key][g].param]]>>

\* C19 as stated: in reduced precision a training batch-end with zero, or two
\* or more, optimizers raises and updates no parameter.
C19_Fp16NotOneIsFatal ==
    [][(OptimizerBatchEndStep /\ is_train /\ fp16
            /\ Cardinality(DOMAIN optimizers) # 1) =>
          /\ raised' # NoException
          /\ Parameters(optimizers', model_params')
                = Parameters(optimizers, model_params)
    ]_vars

\* C19, amended: with two or more optimizers the hook raises (AssertionError)
\* after it has zeroed the model's gradients, before any backward pass, step
\* or parameter update; with no optimizer it zeroes the model's gradients and
\* returns without an error and without any parameter update.
C19_Fp16SeveralIsFatal ==
    [][(OptimizerBatchEndStep /\ is_train /\ fp16
            /\ Cardinality(DOMAIN optimizers) # 1) =>
          /\ raised' = (IF Cardinality(DOMAIN optimizers) >= 2
                        THEN "AssertionError" ELSE NoException)
          /\ optimizers' = optimizers
          /\ model_params' = model_params
          /\ \A i \in DOMAIN ops' : ops'[i].op = "zero_grad"
    ]_vars

\* a reduced-precision training batch-end with two optimizers has raised
C19_Witness ==
    /\ fp16
    /\ is_train
    /\ Cardinality(DOMAIN optimizers) = 2
    /\ raised = "AssertionError"
    /\ pc = "aborted"

\* the set has exactly one element
One(set) == Cardinality(set) = 1

Fp16CallsInOrder(calls, params_left, grads_left, optimizer_left) ==
    LET n == Len(calls)
        decays == CallsOf(calls, "decay")
        clips == CallsOf(calls, "clip")
    IN  /\ n >= 7
        /\ \A op \in {"zero_grad", "backward", "copy_grads", "unscale", "step",
                      "copy_params", "synchronize"} : One(CallsOf(calls, op))
        /\ calls[1].op = "zero_grad" /\ calls[1].key = "model"
        /\ calls[2].op = "backward" /\ calls[2].key = "model"
        /\ grads_left = <<calls[2].after>>
        /\ calls[3].op = "copy_grads"
        /\ calls[3].before = calls[2].after /\ calls[3].after = calls[2].after
        /\ calls[4].op = "unscale"
        /\ calls[4].before = calls[3].after
        /\ RMul(calls[4].after, FromInt(fp16_grad_scale)) = calls[2].after
        /\ \A i \in decays \cup clips : 4 < i /\ i < n - 2
        /\ \A i \in decays : \A j \in clips :
              calls[i].group = calls[j].group => i < j
        /\ calls[n - 2].op = "step"
        /\ calls[n - 2].before[1].grad =
              (IF \E j \in clips : calls[j].group = 1
               THEN calls[CHOOSE j \in clips : calls[j].group = 1].after
               ELSE calls[4].after)
        /\ optimizer_left[calls[n - 2].key] = calls[n - 2].after
        /\ calls[n - 1].op = "copy_params"
        /\ calls[n - 1].after = <<calls[n - 2].after[1].param>>
        /\ params_left = calls[n - 1].after
        /\ calls[n].op = "synchronize"

\* C21 as stated: a reduced-precision training batch-end with one optimizer
\* makes the calls above, in that order and each exactly once, and returns.
C21_Fp16OrderAnyKey ==
    [][(OptimizerBatchEndStep /\ is_train /\ fp16
            /\ Cardinality(DOMAIN optimizers) = 1) =>
          /\ raised' = NoException
          /\ Fp16CallsInOrder(ops', model_params', model_grads', optimizers')
    ]_vars

\* C21, amended: the same, for one optimizer configured under the key "main"
C21_Fp16Order ==
    [][(OptimizerBatchEndStep /\ is_train /\ fp16
            /\ DOMAIN optimizers = {"main"}) =>
          /\ raised' = NoException
          /\ Fp16CallsInOrder(ops', model_params', model_grads', optimizers')
    ]_vars

\* a reduced-precision training batch-end with the optimizer "main", a
\* remembered weight decay and grad_clip has run to its synchronization; the
\* gradient of the batch's loss was not zero and the model has new parameters
C21_Witness ==
    /\ fp16
    /\ is_train
    /\ pc = "batch"
    /\ batch >= 1
    /\ DOMAIN optimizers = {"main"}
    /\ "main" \in DOMAIN optimizer_wds
    /\ grad_clip # None
    /\ Len(ops) >= 7
    /\ ops[Len(ops)].op = "synchronize"
    /\ ops[2].after # FromInt(0)
    /\ Calls(ops, "decay", "main", 1) # {}
    /\ Calls(ops, "clip", "main", 1) # {}
    /\ model_params # <<FromInt(1)>>
    /\ model_params = <<optimizers["main"][1].param>>

(***************************************************************************)
(* Properties of the OneCycleLR counters, checked under SpecOneCycle.      *)
(***************************************************************************)
\* once a training loader-start has set total_iter, the counter is in range
CycleIterInRange ==
    total_iter # None => (0 <= cycle_iter /\ cycle_iter < Get(total_iter))

\* a call of calc_lr moves the counter by one, to 0 exactly when it reaches
\* total_iter, and the cycle counter by one exactly at that wrap; no other
\* step moves either
CycleIterStep ==
    IF ScheduleHookStep /\ lr_last'.called
    THEN LET wraps == cycle_iter + 1 = Get(total_iter')
         IN  /\ lr_last'.i = cycle_iter
             /\ cycle_iter' = (IF wraps THEN 0 ELSE cycle_iter + 1)
             /\ cycle_count' = (IF wraps THEN cycle_count + 1 ELSE cycle_count)
    ELSE cycle_iter' = cycle_iter /\ cycle_count' = cycle_count

\* the schedule has no stop of its own: a training hook that has a cut point
\* to divide by computes a rate, whatever the two counters are
NeverStopsItself ==
    (ScheduleHookStep /\ is_train' /\ cut_point' # Some(0)) =>
        /\ raised' = NoException
        /\ lr_last'.called
        /\ lr_last'.lr # None

\* C22: after the first training loader-start 0 <= cycle_iter < total_iter in
\* every state; each calc_lr call advances cycle_iter by exactly one, wraps it
\* to 0 exactly when it reaches total_iter and increments cycle_count exactly
\* at each wrap and never otherwise; the schedule never stops itself.
C22_CycleIterWraps ==
    /\ []CycleIterInRange
    /\ [][CycleIterStep /\ NeverStopsItself]_vars

\* a calc_lr call at the last iteration of a cycle of several iterations has
\* wrapped the counter and counted the cycle, and the next one has gone on
C22_Witness ==
    /\ is_train
    /\ raised = NoException
    /\ lr_last.called
    /\ lr_last.i = 0
    /\ cycle_iter = 1
    /\ cycle_count >= 1
    /\ Get(total_iter) > 2

(***************************************************************************)
(* Properties of LRUpdater.update_optimizer, checked under SpecLRUpdater,  *)
(* with either schedule.                                                   *)
(***************************************************************************)
\* the rate: written to the state and to every group, or to none of them
LrWrittenTogether(new_lr, old, new) ==
    IF new_lr # None
    THEN /\ state_lr'[optimizer_key] = Get(new_lr)
         /\ \A g \in DOMAIN old : new[g].lr = Get(new_lr)
    ELSE /\ state_lr'[optimizer_key] = state_lr[optimizer_key]
         /\ \A g \in DOMAIN old : new[g].lr = old[g].lr

\* the momentum: written to the state and to every group (the first element
\* of betas, the second kept, or else the momentum field), or to none of them
MomentumWrittenTogether(new_momentum, old, new) ==
    IF new_momentum # None
    THEN /\ state_momentum'[optimizer_key] = Get(new_momentum)
         /\ \A g \in DOMAIN old :
               IF old[g].betas # None
               THEN /\ new[g].betas =
                          Some(<<Get(new_momentum), Get(old[g].betas)[2]>>)
                    /\ new[g].momentum = old[g].momentum
               ELSE /\ new[g].momentum = new_momentum
                    /\ new[g].betas = old[g].betas
    ELSE /\ state_momentum'[optimizer_key] = state_momentum[optimizer_key]
         /\ \A g \in DOMAIN old : /\ new[g].betas = old[g].betas
                                  /\ new[g].momentum = old[g].momentum

\* C23: in a training update state.lr[optimizer_key] and the lr of every
\* parameter group of optimizer[optimizer_key] change together, to the value
\* calc_lr returned, or none of them changes when it returned no change;
\* likewise for momentum, where a betas pair gets its first element replaced
\* and keeps its second; optimizers under other keys are never modified.
C23_WrittenTogether ==
    [][(ScheduleHookStep /\ is_train') =>
          LET old == param_groups[optimizer_key]
              new == param_groups'[optimizer_key]
          IN  /\ DOMAIN new = DOMAIN old
              /\ LrWrittenTogether(lr_last'.lr, old, new)
              /\ MomentumWrittenTogether(lr_last'.momentum, old, new)
              /\ \A key \in DOMAIN param_groups \ {optimizer_key} :
                    /\ param_groups'[key] = param_groups[key]
                    /\ state_lr'[key] = state_lr[key]
                    /\ state_momentum'[key] = state_momentum[key]
    ]_vars

\* a training update of the OneCycleLR has written a rate and a momentum to
\* both groups of an optimizer with betas
C23_Witness ==
    /\ OneCycleRegistered
    /\ is_train
    /\ lr_last.called
    /\ lr_last.lr # None
    /\ lr_last.momentum # None
    /\ Get(lr_last.lr) # FromInt(1)
    /\ Get(lr_last.momentum) # Rat(9, 10)
    /\ Len(param_groups[optimizer_key]) = 2
    /\ \A g \in 1..2 :
          /\ param_groups[optimizer_key][g].lr = Get(lr_last.lr)
          /\ param_groups[optimizer_key][g].betas =
                Some(<<Get(lr_last.momentum), Rat(999, 1000)>>)
    /\ state_lr[optimizer_key] = Get(lr_last.lr)
    /\ param_groups["aux"][1].lr = FromInt(1)

(***************************************************************************)
(* The retained-checkpoint list and the files on disk, checked under Spec. *)
(***************************************************************************)
\* the file references in the retained-checkpoint list
RetainedFiles(list) == {list[i][1] : i \in 1..Len(list)}

\* the epoch-suffixed files among a set of paths
EpochSuffixed(paths) == paths \ {BestPath(logdir)}

\* every retained entry refers to a file that is on disk, and no two entries
\* refer to the same file
RetainedOnDisk ==
    /\ RetainedFiles(top_best_metrics) \subseteq EpochSuffixed(DOMAIN files)
    /\ Cardinality(RetainedFiles(top_best_metrics)) = Len(top_best_metrics)

\* the retained references follow the files of this run: a run starts with
\* none; a step adds the epoch-suffixed file it wrote and takes away the
\* file it deleted, which was written in this run and not deleted before;
\* a file leaves the disk only in an eviction of save_checkpoint
RetainedStep ==
    LET retained == RetainedFiles(top_best_metrics)
        written == EpochSuffixed(last'.written)
        deleted == DOMAIN files \ DOMAIN files'
    IN  IF run' # run
        THEN RetainedFiles(top_best_metrics') = {} /\ deleted = {}
        ELSE /\ RetainedFiles(top_best_metrics') =
                    (retained \cup written) \ last'.removed
             /\ DOMAIN files' =
                    (DOMAIN files \cup last'.written) \ last'.removed
             /\ last'.removed \subseteq retained \cup written
             /\ raised' # "FileNotFoundError"
             /\ deleted \subseteq last'.removed
             /\ last'.removed # {} =>
                   /\ SaveStep
                   /\ last'.evicted # None
                   /\ last'.removed = {Get(last'.evicted)[1]}
             /\ written # {} => SaveStep

\* C24: at every point of a run the epoch-suffixed checkpoint files written
\* during this run and not yet deleted are exactly the file references in the
\* retained-checkpoint list: no retained entry refers to a deleted file, no
\* file is deleted twice, and only the eviction of the CheckpointCallback
\* deletes a file.
C24_RetainedAreRunFiles ==
    /\ []RetainedOnDisk
    /\ [][RetainedStep]_vars

\* a second run has saved and evicted, retains a file, and a file that the
\* first run wrote is still on disk without being retained
C24_Witness ==
    /\ run = "second"
    /\ last.saved
    /\ last.evicted # None
    /\ last.removed # {}
    /\ top_best_metrics # <<>>
    /\ RetainedFiles(top_best_metrics) \subseteq DOMAIN files
    /\ last.removed \cap DOMAIN files = {}
    /\ EpochSuffixed(DOMAIN files) \ RetainedFiles(top_best_metrics) # {}

====
